---------------------------- MODULE Spec2Model ----------------------------
(***************************************************************************)
(* The query-plan executor and conversation context of the EHR script      *)
(* chatbot (src/app.py).  One turn of handle_send_message is one action;   *)
(* execute_query_plan, clean_filter_value, handle_small_talk and the plan  *)
(* generator's response handling are operators translated from the code.   *)
(*                                                                         *)
(* A Python str is a sequence of one-character strings, so that lower(),   *)
(* strip(), endswith() and substring search are computed, not assumed.     *)
(* Every Python value carries its type: [t |-> "str", v |-> ...].          *)
(***************************************************************************)
EXTENDS Integers, Sequences, FiniteSets, TLC

VARIABLES
    EHR_DF,                        \* the table loaded at startup (None when loading failed)
    COLUMN_MAP,                    \* conceptual name -> actual column, built at startup
    LAST_SUCCESSFUL_PLAN_CONTEXT,  \* global, app.py:47
    LAST_PRIMARY_ENTITY_CONTEXT,   \* global, app.py:48
    stored_result,                 \* history: the result of the execution that stored the plan
    turn                           \* history: what the last completed request did

vars == <<EHR_DF, COLUMN_MAP, LAST_SUCCESSFUL_PLAN_CONTEXT,
          LAST_PRIMARY_ENTITY_CONTEXT, stored_result, turn>>

-----------------------------------------------------------------------------
(* Python values *)

None == [t |-> "NoneType"]
NaN == [t |-> "float"]
PyStr(s) == [t |-> "str", v |-> s]
PyInt(n) == [t |-> "int", v |-> n]
PyBool(b) == [t |-> "bool", v |-> b]
PyList(q) == [t |-> "list", v |-> q]
PyDict(r) == [t |-> "dict", v |-> r]

IsStr(x) == x.t = "str"
IsDict(x) == x.t = "dict"
IsList(x) == x.t = "list"

\* bool(x): the truth value Python gives x in `if x:` and `not x`
Truthy(x) ==
    CASE x.t = "NoneType" -> FALSE
      [] x.t = "bool" -> x.v
      [] x.t = "int" -> x.v # 0
      [] x.t = "str" -> Len(x.v) > 0
      [] x.t = "list" -> Len(x.v) > 0
      [] x.t = "dict" -> DOMAIN x.v # {}
      [] OTHER -> TRUE

\* d.get(k, default) on a dict d
GetOr(d, k, default) == IF k \in DOMAIN d.v THEN d.v[k] ELSE default

\* d.get(k)
Get(d, k) == GetOr(d, k, None)

-----------------------------------------------------------------------------
(* str methods *)

UPPERCASE == <<"A","B","C","D","E","F","G","H","I","J","K","L","M","N","O","P","Q","R","S","T","U","V","W","X","Y","Z">>
LOWERCASE == <<"a","b","c","d","e","f","g","h","i","j","k","l","m","n","o","p","q","r","s","t","u","v","w","x","y","z">>
DIGITS == <<"0","1","2","3","4","5","6","7","8","9">>
WHITESPACE == {" ", "\t", "\n"}

to_lower == [c \in {UPPERCASE[i] : i \in DOMAIN UPPERCASE} |->
                LOWERCASE[CHOOSE i \in DOMAIN UPPERCASE : UPPERCASE[i] = c]]
to_upper == [c \in {LOWERCASE[i] : i \in DOMAIN LOWERCASE} |->
                UPPERCASE[CHOOSE i \in DOMAIN LOWERCASE : LOWERCASE[i] = c]]

lower_char(c) == IF c \in DOMAIN to_lower THEN to_lower[c] ELSE c
upper_char(c) == IF c \in DOMAIN to_upper THEN to_upper[c] ELSE c

\* s.lower()
lower(s) == [i \in 1..Len(s) |-> lower_char(s[i])]

RECURSIVE lstrip(_)
lstrip(s) == IF Len(s) > 0 /\ Head(s) \in WHITESPACE THEN lstrip(Tail(s)) ELSE s

RECURSIVE rstrip(_)
rstrip(s) ==
    IF Len(s) > 0 /\ s[Len(s)] \in WHITESPACE THEN rstrip(SubSeq(s, 1, Len(s) - 1)) ELSE s

\* s.strip()
strip(s) == rstrip(lstrip(s))

\* s.startswith(p), s.endswith(p)
startswith(s, p) == Len(p) <= Len(s) /\ \A j \in DOMAIN p : s[j] = p[j]
endswith(s, p) == Len(p) <= Len(s) /\ \A j \in DOMAIN p : s[Len(s) - Len(p) + j] = p[j]

\* p in s
contains(s, p) == \E i \in 0..(Len(s) - Len(p)) : \A j \in DOMAIN p : s[i + j] = p[j]

\* s.replace(" ", "")
RECURSIVE remove_spaces(_)
remove_spaces(s) ==
    IF s = <<>> THEN <<>>
    ELSE IF Head(s) = " " THEN remove_spaces(Tail(s))
    ELSE <<Head(s)>> \o remove_spaces(Tail(s))

\* str(n) for an int n >= 0
RECURSIVE int_str(_)
int_str(n) == IF n < 10 THEN <<DIGITS[n + 1]>> ELSE int_str(n \div 10) \o <<DIGITS[(n % 10) + 1]>>

\* str(x): the text of a value, as astype(str), str() and f-strings produce it
py_str(x) ==
    CASE x.t = "str" -> x.v
      [] x.t = "NoneType" -> <<"N","o","n","e">>
      [] x.t = "float" -> <<"n","a","n">>
      [] x.t = "bool" -> IF x.v THEN <<"T","r","u","e">> ELSE <<"F","a","l","s","e">>
      [] x.t = "int" -> IF x.v < 0 THEN <<"-">> \o int_str(0 - x.v) ELSE int_str(x.v)
      [] x.t = "list" /\ x.v = <<>> -> <<"[","]">>
      [] OTHER -> <<"<","o","b","j","e","c","t",">">>

\* An f-string: the template and the text of each interpolated value.
Fmt(template, args) == [template |-> template, args |-> args]

-----------------------------------------------------------------------------
(* handle_small_talk *)

ehr_keywords ==
    << <<"s","c","r","i","p","t">>, <<"f","o","r","m">>, <<"s","e","r","v","i","c","e">>, <<"f","i","e","l","d">>, <<"c","o","u","n","t">>, <<"l","i","s","t">>,
       <<"d","i","a","g","n","o","s","i","s">>, <<"p","r","o","g","r","e","s","s"," ","n","o","t","e">>, <<"p","h","d">> >>
greetings ==
    << <<"h","i">>, <<"h","e","l","l","o">>, <<"h","e","y">>, <<"g","o","o","d"," ","m","o","r","n","i","n","g">>, <<"g","o","o","d"," ","a","f","t","e","r","n","o","o","n">>, <<"g","o","o","d"," ","e","v","e","n","i","n","g">> >>
thanks == << <<"t","h","a","n","k"," ","y","o","u">>, <<"t","h","a","n","k","s">>, <<"t","h","x">>, <<"a","p","p","r","e","c","i","a","t","e"," ","i","t">> >>
how_are_you == << <<"h","o","w"," ","a","r","e"," ","y","o","u">>, <<"h","o","w","'","s"," ","i","t"," ","g","o","i","n","g">>, <<"h","o","w"," ","a","r","e"," ","t","h","i","n","g","s">> >>

\* any(p in text for p in phrases)
any_in(phrases, text) == \E i \in DOMAIN phrases : contains(text, phrases[i])

TextReply(template) == [reply_type |-> "text", reply |-> Fmt(template, <<>>)]

\* handle_small_talk, had the thanks been looked for before the greetings.
handle_small_talk_thanks_first(user_query) ==
    LET text == lower(strip(user_query)) IN
    IF any_in(ehr_keywords, text) THEN None
    ELSE IF any_in(thanks, text)
        THEN TextReply("You're welcome! Happy to help.")
    ELSE IF any_in(greetings, text)
        THEN TextReply("Hello! How can I assist you with EHR scripts today?")
    ELSE IF any_in(how_are_you, text)
        THEN TextReply("I'm doing well, thanks for asking! What would you like to know about the scripts?")
    ELSE None

handle_small_talk(user_query) ==
    LET text == lower(strip(user_query)) IN
    IF any_in(ehr_keywords, text) THEN None
    ELSE IF any_in(greetings, text)
        THEN TextReply("Hello! How can I assist you with EHR scripts today?")
    ELSE IF any_in(thanks, text)
        THEN TextReply("You're welcome! Happy to help.")
    ELSE IF any_in(how_are_you, text)
        THEN TextReply("I'm doing well, thanks for asking! What would you like to know about the scripts?")
    ELSE None

-----------------------------------------------------------------------------
(* Conceptual columns and the alias map *)

form_name_conceptual == <<"f","o","r","m","_","n","a","m","e","_","c","o","n","c","e","p","t","u","a","l">>
script_name_conceptual == <<"s","c","r","i","p","t","_","n","a","m","e","_","c","o","n","c","e","p","t","u","a","l">>
field_name_conceptual == <<"f","i","e","l","d","_","n","a","m","e","_","c","o","n","c","e","p","t","u","a","l">>
service_name_conceptual == <<"s","e","r","v","i","c","e","_","n","a","m","e","_","c","o","n","c","e","p","t","u","a","l">>
namespace_conceptual == <<"n","a","m","e","s","p","a","c","e","_","c","o","n","c","e","p","t","u","a","l">>

\* The dict in its declaration order: <<key, aliases>>.
COLUMN_ALIASES ==
    << <<form_name_conceptual,
         << <<"F","o","r","m","N","a","m","e">>, <<"F","o","r","m"," ","N","a","m","e">>, <<"F","o","r","m">>, <<"F","o","r","m","s">>, <<"E","H","R"," ","F","o","r","m">> >> >>,
       <<script_name_conceptual,
         << <<"S","c","r","i","p","t","N","a","m","e">>, <<"S","c","r","i","p","t"," ","N","a","m","e">>, <<"S","c","r","i","p","t">>, <<"S","c","r","i","p","t","s">>, <<"E","H","R"," ","S","c","r","i","p","t">> >> >>,
       <<field_name_conceptual,
         << <<"F","i","e","l","d","N","a","m","e">>, <<"F","i","e","l","d"," ","N","a","m","e">>, <<"F","i","e","l","d">>, <<"F","i","e","l","d","s">>, <<"F","o","r","m"," ","F","i","e","l","d">>,
            <<"E","H","R"," ","F","i","e","l","d">>, <<"F","i","e","l","d","_","N","a","m","e">>, <<"F","i","e","l","d","_","I","D">> >> >>,
       <<service_name_conceptual,
         << <<"S","e","r","v","i","c","e","N","a","m","e">>, <<"S","e","r","v","i","c","e"," ","N","a","m","e">>, <<"S","e","r","v","i","c","e">>, <<"S","e","r","v","i","c","e","s">>, <<"E","H","R"," ","S","e","r","v","i","c","e">> >> >>,
       <<namespace_conceptual,
         << <<"N","a","m","e","s","p","a","c","e">>, <<"N","a","m","e","s","p","a","c","e","s">>, <<"E","n","v">>, <<"E","n","v","i","r","o","n","m","e","n","t">> >> >> >>

DEFAULT_DISPLAY_COLUMNS_CONCEPTUAL ==
    << script_name_conceptual, form_name_conceptual, field_name_conceptual,
       service_name_conceptual, namespace_conceptual >>

\* col.replace(" ", "").lower()
normalize_name(s) == lower(remove_spaces(s))

\* The first column, in table order, that an alias names: <<col>>, or <<>> when none does.
first_column_for(alias, columns) ==
    LET hits == {i \in DOMAIN columns : normalize_name(columns[i]) = normalize_name(alias)} IN
    IF hits = {} THEN <<>>
    ELSE <<columns[CHOOSE i \in hits : \A j \in hits : i <= j]>>

\* resolve_aliases, had the columns been the outer loop: the first column, in table
\* order, that any alias of the key names.
resolve_aliases_columns_first(aliases, columns) ==
    LET hits == {i \in DOMAIN columns : \E a \in DOMAIN aliases :
                     normalize_name(columns[i]) = normalize_name(aliases[a])} IN
    IF hits = {} THEN <<>>
    ELSE <<columns[CHOOSE i \in hits : \A j \in hits : i <= j]>>

\* The loops over a key's aliases: the first alias with a column wins.
RECURSIVE resolve_aliases(_, _)
resolve_aliases(aliases, columns) ==
    IF aliases = <<>> THEN <<>>
    ELSE LET hit == first_column_for(Head(aliases), columns) IN
         IF hit # <<>> THEN hit ELSE resolve_aliases(Tail(aliases), columns)

\* The module-level loop that fills COLUMN_MAP: a dict from the keys that found a
\* column to that column; EHR_DF None leaves it empty.
build_column_map(df) ==
    IF df = None THEN <<>>
    ELSE LET found == {i \in DOMAIN COLUMN_ALIASES :
                          resolve_aliases(COLUMN_ALIASES[i][2], df.columns) # <<>>}
             keys == {COLUMN_ALIASES[i][1] : i \in found}
             entry(k) == CHOOSE i \in found : COLUMN_ALIASES[i][1] = k
         IN [k \in keys |-> resolve_aliases(COLUMN_ALIASES[entry(k)][2], df.columns)[1]]

\* column_map.get(key) for a hashable key
column_map_get(column_map, key) ==
    IF IsStr(key) /\ key.v \in DOMAIN column_map THEN PyStr(column_map[key.v]) ELSE None

-----------------------------------------------------------------------------
(* clean_filter_value *)

suffixes == << <<" ","f","o","r","m">>, <<" ","n","o","t","e">>, <<" ","s","c","r","i","p","t">> >>

\* The for loop with its break: the first suffix the value ends with is removed.
RECURSIVE strip_first_suffix(_, _)
strip_first_suffix(value, sufs) ==
    IF sufs = <<>> THEN value
    ELSE IF endswith(value, Head(sufs)) THEN SubSeq(value, 1, Len(value) - Len(Head(sufs)))
    ELSE strip_first_suffix(value, Tail(sufs))

\* clean_filter_value, had the loop gone on after a suffix was removed: suffixes
\* are removed until the value ends with none.
RECURSIVE strip_every_suffix(_)
strip_every_suffix(value) ==
    IF strip_first_suffix(value, suffixes) = value THEN value
    ELSE strip_every_suffix(strip_first_suffix(value, suffixes))

clean_filter_value_every_suffix(value) ==
    IF ~IsStr(value) THEN value
    ELSE PyStr(strip_every_suffix(strip(lower(value.v))))

clean_filter_value(value) ==
    IF ~IsStr(value) THEN value
    ELSE PyStr(strip_first_suffix(strip(lower(value.v)), suffixes))

-----------------------------------------------------------------------------
(* The DataFrame: [columns |-> <<name, ...>>, rows |-> <<[idx, cells], ...>>],  *)
(* cells a function from column name to a value; NaN is a missing cell.       *)

\* df.empty
df_empty(df) == Len(df.rows) = 0 \/ Len(df.columns) = 0

\* col in df.columns
has_column(df, col) == \E i \in DOMAIN df.columns : df.columns[i] = col

\* Series.dropna().unique(): the distinct non-missing values, in order of appearance
RECURSIVE unique_values(_, _)
unique_values(rows, col) ==
    IF rows = <<>> THEN <<>>
    ELSE LET before == unique_values(SubSeq(rows, 1, Len(rows) - 1), col)
             cell == rows[Len(rows)].cells[col]
         IN IF cell = NaN \/ \E i \in DOMAIN before : before[i] = cell
            THEN before ELSE Append(before, cell)

\* Series.notna().sum()
notna_count(rows, col) == Cardinality({i \in DOMAIN rows : rows[i].cells[col] # NaN})

\* re.compile(pat) raises re.error. The patterns of this model are made of literal
\* characters, "." and "(": a "(" opens a group that nothing closes.
regex_error(pat) == \E i \in DOMAIN pat : pat[i] = "("

\* re.compile(pat, re.IGNORECASE).search(text) is not None, for a pattern that compiles
regex_search(pat, text) ==
    \E i \in 0..(Len(text) - Len(pat)) :
        \A j \in DOMAIN pat :
            \/ pat[j] = "." /\ text[i + j] # "\n"
            \/ lower_char(pat[j]) = lower_char(text[i + j])

\* The operation and match_type words of a plan.
FILTER_AND_LIST == <<"f","i","l","t","e","r","_","a","n","d","_","l","i","s","t">>
COUNT_ITEMS == <<"c","o","u","n","t","_","i","t","e","m","s">>
LIST_UNIQUE_VALUES == <<"l","i","s","t","_","u","n","i","q","u","e","_","v","a","l","u","e","s">>
EXACT == <<"e","x","a","c","t">>
CONTAINS == <<"c","o","n","t","a","i","n","s">>
NOT_EXACT == <<"n","o","t","_","e","x","a","c","t">>
EQUALS == <<"e","q","u","a","l","s">>

\* Series.astype(str) on an object column: every cell becomes its text, a missing
\* cell the text "nan"
astype_str(cell) == py_str(cell)

\* The comparison of one row under a match type (the try block's three branches).
row_matches(match_type, cell, value_to_filter) ==
    LET col_as_str == astype_str(cell) IN
    CASE match_type = EXACT -> lower(col_as_str) = lower(py_str(value_to_filter))
      [] match_type = CONTAINS -> regex_search(py_str(value_to_filter), col_as_str)
      [] match_type = NOT_EXACT -> lower(col_as_str) # lower(py_str(value_to_filter))

\* narrow, had each filter selected from the whole table.
narrow_from_table(df, filtered_df, actual_col_name, match_type, value_to_filter) ==
    LET mask(r) == row_matches(match_type, r.cells[actual_col_name], value_to_filter) IN
    [columns |-> df.columns, rows |-> SelectSeq(df.rows, mask)]

\* filtered_df = filtered_df[mask]: the filter narrows the working copy
narrow(df, filtered_df, actual_col_name, match_type, value_to_filter) ==
    LET mask(r) == row_matches(match_type, r.cells[actual_col_name], value_to_filter) IN
    [columns |-> filtered_df.columns, rows |-> SelectSeq(filtered_df.rows, mask)]

-----------------------------------------------------------------------------
(* execute_query_plan: the outcome of a step is a value to go on with, a      *)
(* returned result, or a raised exception.                                    *)

Result(type, template, args) == [type |-> type, content |-> Fmt(template, args)]
Go(v) == [kind |-> "go", v |-> v]
Return(result) == [kind |-> "return", result |-> result]
Raise(exc) == [kind |-> "raise", exc |-> exc]

AttributeError == <<"A","t","t","r","i","b","u","t","e","E","r","r","o","r">>
TypeError == <<"T","y","p","e","E","r","r","o","r">>
KeyError == <<"K","e","y","E","r","r","o","r">>

\* match_type = f_spec.get("match_type", "contains").lower(), "equals" read as "exact"
normalize_match_type(f_spec) ==
    LET raw == GetOr(f_spec, "match_type", PyStr(CONTAINS)) IN
    IF ~IsStr(raw) THEN Raise(AttributeError)
    ELSE LET lowered == lower(raw.v) IN
         Go(IF lowered = EQUALS THEN EXACT ELSE lowered)

supported_match_types == { EXACT, CONTAINS, NOT_EXACT }

\* One pass of the body of `for f_spec in filters_plan` on the working copy.
\* apply_filter, had a filter on a column that is not mapped been passed over.
apply_filter_skipping_unmapped(df, column_map, filtered_df, f_spec) ==
    IF ~IsDict(f_spec) THEN Raise(AttributeError)
    ELSE
    LET concept_col == Get(f_spec, "column_conceptual_name")
        mt == normalize_match_type(f_spec)
        value_to_filter == clean_filter_value(Get(f_spec, "value"))
    IN
    IF concept_col.t \in {"list", "dict"} THEN Raise(TypeError)
    ELSE IF mt.kind = "raise" THEN mt
    ELSE IF mt.v \notin supported_match_types
        THEN Return(Result("text", "Unsupported match_type: '{}'.", <<mt.v>>))
    ELSE
    LET actual_col_name == column_map_get(column_map, concept_col) IN
    IF ~Truthy(actual_col_name) THEN Go(filtered_df)
    ELSE IF value_to_filter = None
        THEN Return(Result("text", "Filter Error: No value for filtering '{}'.",
                           <<py_str(concept_col)>>))
    ELSE IF ~has_column(filtered_df, actual_col_name.v)
        THEN Return(Result("text", "Filter Error: Mapped column '{}' not in DataFrame.",
                           <<actual_col_name.v>>))
    ELSE IF mt.v = CONTAINS /\ regex_error(py_str(value_to_filter))
        THEN Return(Result("text", "Error during filtering on '{}': {}",
                           <<actual_col_name.v, <<"r","e",".","e","r","r","o","r">>>>))
    ELSE Go(narrow(df, filtered_df, actual_col_name.v, mt.v, value_to_filter))

apply_filter(df, column_map, filtered_df, f_spec) ==
    IF ~IsDict(f_spec) THEN Raise(AttributeError)
    ELSE
    LET concept_col == Get(f_spec, "column_conceptual_name")
        mt == normalize_match_type(f_spec)
        value_to_filter == clean_filter_value(Get(f_spec, "value"))
    IN
    IF concept_col.t \in {"list", "dict"} THEN Raise(TypeError)
    ELSE IF mt.kind = "raise" THEN mt
    ELSE IF mt.v \notin supported_match_types
        THEN Return(Result("text", "Unsupported match_type: '{}'.", <<mt.v>>))
    ELSE
    LET actual_col_name == column_map_get(column_map, concept_col) IN
    IF ~Truthy(actual_col_name)
        THEN Return(Result("text", "Filter Error: Conceptual column '{}' not mapped.",
                           <<py_str(concept_col)>>))
    ELSE IF value_to_filter = None
        THEN Return(Result("text", "Filter Error: No value for filtering '{}'.",
                           <<py_str(concept_col)>>))
    ELSE IF ~has_column(filtered_df, actual_col_name.v)
        THEN Return(Result("text", "Filter Error: Mapped column '{}' not in DataFrame.",
                           <<actual_col_name.v>>))
    ELSE IF mt.v = CONTAINS /\ regex_error(py_str(value_to_filter))
        THEN Return(Result("text", "Error during filtering on '{}': {}",
                           <<actual_col_name.v, <<"r","e",".","e","r","r","o","r">>>>))
    ELSE Go(narrow(df, filtered_df, actual_col_name.v, mt.v, value_to_filter))

\* The for loop: filters in plan order, stopping at the first return or raise.
RECURSIVE apply_filters(_, _, _, _)
apply_filters(df, column_map, filtered_df, filters) ==
    IF filters = <<>> THEN Go(filtered_df)
    ELSE LET step == apply_filter(df, column_map, filtered_df, Head(filters)) IN
         IF step.kind # "go" THEN step
         ELSE apply_filters(df, column_map, step.v, Tail(filters))

Entity(type, value) == [type |-> type, value |-> value]

\* first_filter_entity, had it recorded the value as the filter loop normalises it.
first_filter_entity_cleaned(filters_plan) ==
    IF ~Truthy(filters_plan) THEN Go(None)
    ELSE IF filters_plan.t = "dict" THEN Raise(KeyError)
    ELSE IF filters_plan.t \notin {"list", "str"} THEN Raise(TypeError)
    ELSE LET first == IF IsList(filters_plan) THEN filters_plan.v[1]
                      ELSE PyStr(<<filters_plan.v[1]>>) IN
         IF ~IsDict(first) THEN Raise(AttributeError)
         ELSE IF Truthy(Get(first, "value")) /\ Truthy(Get(first, "column_conceptual_name"))
              THEN Go(Entity(Get(first, "column_conceptual_name"),
                             clean_filter_value(Get(first, "value"))))
              ELSE Go(None)

\* filters_plan[0] and the tentative entity of lines 305-312.
first_filter_entity(filters_plan) ==
    IF ~Truthy(filters_plan) THEN Go(None)
    ELSE IF filters_plan.t = "dict" THEN Raise(KeyError)
    ELSE IF filters_plan.t \notin {"list", "str"} THEN Raise(TypeError)
    ELSE LET first == IF IsList(filters_plan) THEN filters_plan.v[1]
                      ELSE PyStr(<<filters_plan.v[1]>>) IN
         IF ~IsDict(first) THEN Raise(AttributeError)
         ELSE IF Truthy(Get(first, "value")) /\ Truthy(Get(first, "column_conceptual_name"))
              THEN Go(Entity(Get(first, "column_conceptual_name"), Get(first, "value")))
              ELSE Go(None)

-----------------------------------------------------------------------------
(* Post-filter context bookkeeping (lines 350-406) *)

\* Rule 1: the single script of a filter_and_list result, or None.
single_script_entity(column_map, operation, filtered_df) ==
    IF operation # PyStr(FILTER_AND_LIST) THEN None
    ELSE LET script_col_actual == column_map_get(column_map, PyStr(script_name_conceptual)) IN
         IF ~(Truthy(script_col_actual) /\ has_column(filtered_df, script_col_actual.v)) THEN None
         ELSE LET unique_scripts_in_result == unique_values(filtered_df.rows, script_col_actual.v) IN
              IF Len(unique_scripts_in_result) = 1
              THEN Entity(PyStr(script_name_conceptual),
                          PyStr(py_str(unique_scripts_in_result[1])))
              ELSE None

\* operation_entity, had a listing with filters counted as a listing of everything.
operation_entity_any_filters(plan, operation, filters_plan) ==
    IF operation = PyStr(COUNT_ITEMS) /\ Truthy(Get(plan, "count_target_conceptual"))
        THEN Entity(Get(plan, "count_target_conceptual"), PyStr(<<"i","t","e","m","s"," ","p","r","e","v","i","o","u","s","l","y"," ","c","o","u","n","t","e","d">>))
    ELSE IF /\ operation = PyStr(LIST_UNIQUE_VALUES)
            /\ Truthy(Get(plan, "list_unique_target_conceptual"))
        THEN Entity(Get(plan, "list_unique_target_conceptual"),
                    PyStr(<<"a","l","l"," ","u","n","i","q","u","e"," ","v","a","l","u","e","s"," ","l","i","s","t","e","d">>))
    ELSE None

\* Rule 3: the class of items a count or an unfiltered listing was about, or None.
operation_entity(plan, operation, filters_plan) ==
    IF operation = PyStr(COUNT_ITEMS) /\ Truthy(Get(plan, "count_target_conceptual"))
        THEN Entity(Get(plan, "count_target_conceptual"), PyStr(<<"i","t","e","m","s"," ","p","r","e","v","i","o","u","s","l","y"," ","c","o","u","n","t","e","d">>))
    ELSE IF /\ operation = PyStr(LIST_UNIQUE_VALUES)
            /\ ~Truthy(filters_plan)
            /\ Truthy(Get(plan, "list_unique_target_conceptual"))
        THEN Entity(Get(plan, "list_unique_target_conceptual"),
                    PyStr(<<"a","l","l"," ","u","n","i","q","u","e"," ","v","a","l","u","e","s"," ","l","i","s","t","e","d">>))
    ELSE None

\* new_primary_context, had the filter's entity come before the single script.
new_primary_context_candidate_first(column_map, plan, operation, filters_plan, filtered_df, from_filters) ==
    LET single == single_script_entity(column_map, operation, filtered_df) IN
    IF from_filters # None THEN from_filters
    ELSE IF single # None THEN single
    ELSE IF operation = PyStr(COUNT_ITEMS) /\ Truthy(Get(plan, "count_target_conceptual"))
        THEN Entity(Get(plan, "count_target_conceptual"), PyStr(<<"i","t","e","m","s"," ","p","r","e","v","i","o","u","s","l","y"," ","c","o","u","n","t","e","d">>))
    ELSE IF /\ operation = PyStr(LIST_UNIQUE_VALUES)
            /\ ~Truthy(filters_plan)
            /\ Truthy(Get(plan, "list_unique_target_conceptual"))
        THEN Entity(Get(plan, "list_unique_target_conceptual"),
                    PyStr(<<"a","l","l"," ","u","n","i","q","u","e"," ","v","a","l","u","e","s"," ","l","i","s","t","e","d">>))
    ELSE None

\* new_primary_context, by the precedence of lines 371-399.
new_primary_context(column_map, plan, operation, filters_plan, filtered_df, from_filters) ==
    LET single == single_script_entity(column_map, operation, filtered_df) IN
    IF single # None THEN single
    ELSE IF from_filters # None THEN from_filters
    ELSE operation_entity(plan, operation, filters_plan)

\* updated_entity_context, had the assignment not been guarded.
updated_entity_context_assigning(new_context, entity_ctx) == new_context

\* Lines 401-403: a derived context replaces the old one, None leaves it.
updated_entity_context(new_context, entity_ctx) ==
    IF new_context # None THEN new_context ELSE entity_ctx

\* Lines 352-357: the context after a filtering that left no row.
empty_result_entity_context(from_filters, entity_ctx) ==
    IF from_filters # None THEN from_filters ELSE None

-----------------------------------------------------------------------------
(* Operation dispatch (lines 408-482) *)

\* The characters in code-point order (the grave accent, which no text of the
\* model holds, is left out).
ASCII ==
    << "\t", "\n", " ", "!", "\"", "#", "$", "%", "&", "'", "(", ")", "*", "+", ",", "-",
       ".", "/", "0", "1", "2", "3", "4", "5", "6", "7", "8", "9", ":", ";", "<", "=",
       ">", "?", "@", "A", "B", "C", "D", "E", "F", "G", "H", "I", "J", "K", "L", "M",
       "N", "O", "P", "Q", "R", "S", "T", "U", "V", "W", "X", "Y", "Z", "[", "\\", "]",
       "^", "_", "a", "b", "c", "d", "e", "f", "g", "h", "i", "j", "k", "l", "m",
       "n", "o", "p", "q", "r", "s", "t", "u", "v", "w", "x", "y", "z", "{", "|", "}",
       "~" >>

ord(c) == CHOOSE i \in DOMAIN ASCII : ASCII[i] = c

\* a <= b for two str, as sorted() compares them
RECURSIVE str_le(_, _)
str_le(a, b) ==
    IF a = <<>> THEN TRUE
    ELSE IF b = <<>> THEN FALSE
    ELSE IF Head(a) = Head(b) THEN str_le(Tail(a), Tail(b))
    ELSE ord(Head(a)) < ord(Head(b))

RECURSIVE insert_sorted(_, _)
insert_sorted(sorted_seq, s) ==
    IF sorted_seq = <<>> THEN <<s>>
    ELSE IF str_le(Head(sorted_seq), s) THEN <<Head(sorted_seq)>> \o insert_sorted(Tail(sorted_seq), s)
    ELSE <<s>> \o sorted_seq

\* sorted(seq) for a list of str
RECURSIVE sorted(_)
sorted(seq) ==
    IF seq = <<>> THEN <<>>
    ELSE insert_sorted(sorted(SubSeq(seq, 1, Len(seq) - 1)), seq[Len(seq)])

\* sep.join(seq)
RECURSIVE join(_, _)
join(sep, seq) ==
    IF seq = <<>> THEN <<>>
    ELSE IF Len(seq) = 1 THEN seq[1]
    ELSE seq[1] \o sep \o join(sep, Tail(seq))

\* s.replace(old, "")
RECURSIVE str_remove(_, _)
str_remove(s, old) ==
    IF s = <<>> THEN <<>>
    ELSE IF startswith(s, old) THEN str_remove(SubSeq(s, Len(old) + 1, Len(s)), old)
    ELSE <<Head(s)>> \o str_remove(Tail(s), old)

\* s.capitalize()
capitalize(s) == IF s = <<>> THEN <<>> ELSE <<upper_char(Head(s))>> \o lower(Tail(s))

\* The items a `for c in x` visits: Go(<<item, ...>>), or TypeError for a value
\* that is not iterable. (The plans of this model put no dict here.)
iterate(x) ==
    IF IsList(x) THEN Go(x.v)
    ELSE IF IsStr(x) THEN Go([i \in 1..Len(x.v) |-> PyStr(<<x.v[i]>>)])
    ELSE Raise(TypeError)

\* DataFrame.to_html(index=False): the header and the text of every cell, a
\* missing cell as "NaN".
to_html(columns, projected_rows) ==
    [header |-> columns,
     body |-> [i \in DOMAIN projected_rows |->
                  [j \in DOMAIN projected_rows[i] |->
                      IF projected_rows[i][j] = NaN THEN <<"N","a","N">>
                      ELSE py_str(projected_rows[i][j])]]]

\* drop_duplicates(): the first of each run of equal rows is kept
RECURSIVE drop_duplicates(_)
drop_duplicates(seq) ==
    IF seq = <<>> THEN <<>>
    ELSE LET before == drop_duplicates(SubSeq(seq, 1, Len(seq) - 1)) IN
         IF \E i \in DOMAIN before : before[i] = seq[Len(seq)] THEN before
         ELSE Append(before, seq[Len(seq)])

filter_and_list(column_map, plan, filtered_df) ==
    LET display_concepts ==
            iterate(GetOr(plan, "display_columns_conceptual",
                          PyList([i \in DOMAIN DEFAULT_DISPLAY_COLUMNS_CONCEPTUAL |->
                                     PyStr(DEFAULT_DISPLAY_COLUMNS_CONCEPTUAL[i])])))
    IN
    IF display_concepts.kind = "raise" THEN display_concepts
    ELSE IF \E i \in DOMAIN display_concepts.v : display_concepts.v[i].t \in {"list", "dict"}
        THEN Raise(TypeError)
    ELSE
    LET usable(c) == /\ Truthy(column_map_get(column_map, c))
                     /\ has_column(filtered_df, column_map_get(column_map, c).v)
        chosen == SelectSeq(display_concepts.v, usable)
        resolved == [i \in DOMAIN chosen |-> column_map_get(column_map, chosen[i]).v]
        is_mapped(col) == \E k \in DOMAIN column_map : column_map[k] = col
        mapped_cols == SelectSeq(filtered_df.columns, is_mapped)
        display_actual_cols ==
            IF resolved = <<>> /\ ~df_empty(filtered_df)
            THEN (IF mapped_cols # <<>> THEN mapped_cols ELSE filtered_df.columns)
            ELSE resolved
        projected == [i \in DOMAIN filtered_df.rows |->
                         [j \in DOMAIN display_actual_cols |->
                             filtered_df.rows[i].cells[display_actual_cols[j]]]]
    IN
    IF ~df_empty(filtered_df) /\ display_actual_cols # <<>>
        THEN Return([type |-> "html",
                     content |-> Fmt("Results:\n{}",
                                     <<to_html(display_actual_cols, drop_duplicates(projected))>>)])
    ELSE IF df_empty(filtered_df)
        THEN Return(Result("text", "No data found.", <<>>))
    ELSE Return(Result("text", "Data found, but no valid columns to display.", <<>>))

\* The label of a count: count_target_concept without "_conceptual" and "_name",
\* capitalized.
entity_label(count_target_concept) ==
    capitalize(str_remove(str_remove(count_target_concept, <<"_","c","o","n","c","e","p","t","u","a","l">>), <<"_","n","a","m","e">>))

\* count_items, had the count without count_distinct been the number of rows.
count_items_rows(column_map, plan, filtered_df) ==
    LET count_target_concept == Get(plan, "count_target_conceptual")
        count_distinct == GetOr(plan, "count_distinct", PyBool(FALSE))
    IN
    IF df_empty(filtered_df)
        THEN Return(Result("text", "No data to count matching your criteria.", <<>>))
    ELSE IF ~Truthy(count_target_concept)
        THEN Return(Result("text", "Found {} records matching your criteria.",
                           <<int_str(Len(filtered_df.rows))>>))
    ELSE IF count_target_concept.t \in {"list", "dict"} THEN Raise(TypeError)
    ELSE
    LET actual_count_col == column_map_get(column_map, count_target_concept) IN
    IF ~Truthy(actual_count_col) \/ ~has_column(filtered_df, actual_count_col.v)
        THEN Return(Result("text", "Count Error: Target column '{}' not mapped/found.",
                           <<py_str(count_target_concept)>>))
    ELSE IF Truthy(count_distinct)
        THEN LET count == Len(unique_values(filtered_df.rows, actual_count_col.v))
                 plural == entity_label(count_target_concept.v) \o <<"s">>
                 entity_name == IF count = 1 THEN SubSeq(plural, 1, Len(plural) - 1) ELSE plural
             IN Return(Result("text", "Found {} distinct {} ({}) matching your criteria.",
                              <<int_str(count), entity_name, actual_count_col.v>>))
    ELSE Return(Result("text",
                       "Found {} items/records where '{}' ({}) is present, matching criteria.",
                       <<int_str(Len(filtered_df.rows)), entity_label(count_target_concept.v),
                         actual_count_col.v>>))

count_items(column_map, plan, filtered_df) ==
    LET count_target_concept == Get(plan, "count_target_conceptual")
        count_distinct == GetOr(plan, "count_distinct", PyBool(FALSE))
    IN
    IF df_empty(filtered_df)
        THEN Return(Result("text", "No data to count matching your criteria.", <<>>))
    ELSE IF ~Truthy(count_target_concept)
        THEN Return(Result("text", "Found {} records matching your criteria.",
                           <<int_str(Len(filtered_df.rows))>>))
    ELSE IF count_target_concept.t \in {"list", "dict"} THEN Raise(TypeError)
    ELSE
    LET actual_count_col == column_map_get(column_map, count_target_concept) IN
    IF ~Truthy(actual_count_col) \/ ~has_column(filtered_df, actual_count_col.v)
        THEN Return(Result("text", "Count Error: Target column '{}' not mapped/found.",
                           <<py_str(count_target_concept)>>))
    ELSE IF Truthy(count_distinct)
        THEN LET count == Len(unique_values(filtered_df.rows, actual_count_col.v))
                 plural == entity_label(count_target_concept.v) \o <<"s">>
                 entity_name == IF count = 1 THEN SubSeq(plural, 1, Len(plural) - 1) ELSE plural
             IN Return(Result("text", "Found {} distinct {} ({}) matching your criteria.",
                              <<int_str(count), entity_name, actual_count_col.v>>))
    ELSE LET count == notna_count(filtered_df.rows, actual_count_col.v) IN
         Return(Result("text",
                       "Found {} items/records where '{}' ({}) is present, matching criteria.",
                       <<int_str(count), entity_label(count_target_concept.v),
                         actual_count_col.v>>))

\* list_unique_values, had it always read the whole table.
list_unique_values_whole_table(df, column_map, plan, filters_plan, filtered_df) ==
    LET list_target_concept == Get(plan, "list_unique_target_conceptual") IN
    IF list_target_concept.t \in {"list", "dict"} THEN Raise(TypeError)
    ELSE
    LET actual_list_col == column_map_get(column_map, list_target_concept) IN
    IF ~Truthy(actual_list_col) \/ ~has_column(df, actual_list_col.v)
        THEN Return(Result("text", "List Unique Error: Target column '{}' not mapped.",
                           <<py_str(list_target_concept)>>))
    ELSE IF df_empty(df)
        THEN Return(Result("text", "No data to list unique values for '{}'.",
                           <<actual_list_col.v>>))
    ELSE LET unique == unique_values(df.rows, actual_list_col.v)
             texts == [i \in DOMAIN unique |-> py_str(unique[i])]
         IN Return(Result("text", "Unique values for '{}':\n{}",
                          <<actual_list_col.v, join(<<"\n">>, sorted(texts))>>))

list_unique_values(df, column_map, plan, filters_plan, filtered_df) ==
    LET list_target_concept == Get(plan, "list_unique_target_conceptual") IN
    IF list_target_concept.t \in {"list", "dict"} THEN Raise(TypeError)
    ELSE
    LET actual_list_col == column_map_get(column_map, list_target_concept) IN
    IF ~Truthy(actual_list_col) \/ ~has_column(df, actual_list_col.v)
        THEN Return(Result("text", "List Unique Error: Target column '{}' not mapped.",
                           <<py_str(list_target_concept)>>))
    ELSE
    LET df_to_use_for_unique ==
            IF Truthy(filters_plan) /\ ~df_empty(filtered_df) THEN filtered_df ELSE df
    IN
    IF df_empty(df_to_use_for_unique)
        THEN Return(Result("text", "No data to list unique values for '{}'.",
                           <<actual_list_col.v>>))
    ELSE IF ~has_column(df_to_use_for_unique, actual_list_col.v)
        THEN Return(Result("text", "List Unique Error: Column '{}' not in data for unique values.",
                           <<actual_list_col.v>>))
    ELSE LET unique == unique_values(df_to_use_for_unique.rows, actual_list_col.v)
             texts == [i \in DOMAIN unique |-> py_str(unique[i])]
         IN Return(Result("text", "Unique values for '{}':\n{}",
                          <<actual_list_col.v, join(<<"\n">>, sorted(texts))>>))

\* dispatch, had the listing been the branch for every other operation.
dispatch_listing_by_default(df, column_map, plan, operation, filters_plan, filtered_df) ==
    IF operation = PyStr(COUNT_ITEMS) THEN count_items(column_map, plan, filtered_df)
    ELSE IF operation = PyStr(LIST_UNIQUE_VALUES)
        THEN list_unique_values(df, column_map, plan, filters_plan, filtered_df)
    ELSE filter_and_list(column_map, plan, filtered_df)

\* The if/elif chain on operation.
dispatch(df, column_map, plan, operation, filters_plan, filtered_df) ==
    IF operation = PyStr(FILTER_AND_LIST) THEN filter_and_list(column_map, plan, filtered_df)
    ELSE IF operation = PyStr(COUNT_ITEMS) THEN count_items(column_map, plan, filtered_df)
    ELSE IF operation = PyStr(LIST_UNIQUE_VALUES)
        THEN list_unique_values(df, column_map, plan, filters_plan, filtered_df)
    ELSE Return(Result("text", "Unsupported operation: '{}'.", <<py_str(operation)>>))

-----------------------------------------------------------------------------
(* execute_query_plan *)

\* What a call did: how it ended (kind "return" with result, or "raise" with exc),
\* the two globals after it, and which part of the function it ended in.
Outcome(kind, result, exc, plan_ctx, entity_ctx, branch, from_filters, filtered) ==
    [kind |-> kind, result |-> result, exc |-> exc,
     plan_ctx |-> plan_ctx, entity_ctx |-> entity_ctx,
     branch |-> branch, from_filters |-> from_filters, filtered |-> filtered]

row_ids(df) == [i \in DOMAIN df.rows |-> df.rows[i].idx]

\* Lines 361-482: the plan found rows.
execute_on_rows(df, column_map, plan, filtered_df, from_filters, entity_ctx) ==
    LET operation == Get(plan, "operation")
        filters_plan == GetOr(plan, "filters", PyList(<<>>))
        new_context == new_primary_context(column_map, plan, operation, filters_plan,
                                           filtered_df, from_filters)
        done == dispatch(df, column_map, plan, operation, filters_plan, filtered_df)
    IN Outcome(done.kind,
               IF done.kind = "return" THEN done.result ELSE None,
               IF done.kind = "raise" THEN done.exc ELSE <<>>,
               plan, updated_entity_context(new_context, entity_ctx),
               "dispatched", from_filters, row_ids(filtered_df))

\* filter_failed, had the entity of the first filter been promoted before the loop.
filter_failed_promoting(step, plan_ctx, entity_ctx, from_filters) ==
    LET promoted == IF from_filters # None THEN from_filters ELSE entity_ctx IN
    IF step.kind = "raise"
    THEN Outcome("raise", None, step.exc, plan_ctx, promoted, "filter_raise", from_filters, <<>>)
    ELSE Outcome("return", step.result, <<>>, plan_ctx, promoted, "filter_error",
                 from_filters, <<>>)

\* Lines 322-348: a filter that fails returns its error (or raises) before either
\* global is assigned.
filter_failed(step, plan_ctx, entity_ctx, from_filters) ==
    IF step.kind = "raise"
    THEN Outcome("raise", None, step.exc, plan_ctx, entity_ctx, "filter_raise", from_filters, <<>>)
    ELSE Outcome("return", step.result, <<>>, plan_ctx, entity_ctx, "filter_error",
                 from_filters, <<>>)

\* Lines 350-359: no row is left.
empty_result(plan_ctx, entity_ctx, from_filters) ==
    Outcome("return",
            Result("text", "No data found matching your specified filter criteria.", <<>>),
            <<>>, None, empty_result_entity_context(from_filters, entity_ctx),
            "empty", from_filters, <<>>)

\* execute_answerable, had it gone on to the operation with no row left.
execute_answerable_dispatching_empty(df, column_map, plan, plan_ctx, entity_ctx) ==
    LET filters_plan == GetOr(plan, "filters", PyList(<<>>))
        first == first_filter_entity(filters_plan)
    IN
    IF first.kind = "raise" THEN filter_failed(first, plan_ctx, entity_ctx, None)
    ELSE
    LET filtered == IF Truthy(filters_plan)
                    THEN apply_filters(df, column_map, df, filters_plan.v)
                    ELSE Go(df)
    IN
    IF filtered.kind # "go" THEN filter_failed(filtered, plan_ctx, entity_ctx, first.v)
    ELSE execute_on_rows(df, column_map, plan, filtered.v, first.v, entity_ctx)

\* Lines 299-359: filtering, and the return on an empty result.
execute_answerable(df, column_map, plan, plan_ctx, entity_ctx) ==
    LET filters_plan == GetOr(plan, "filters", PyList(<<>>))
        first == first_filter_entity(filters_plan)
    IN
    IF first.kind = "raise" THEN filter_failed(first, plan_ctx, entity_ctx, None)
    ELSE
    LET filtered == IF Truthy(filters_plan)
                    THEN apply_filters(df, column_map, df, filters_plan.v)
                    ELSE Go(df)
    IN
    IF filtered.kind # "go" THEN filter_failed(filtered, plan_ctx, entity_ctx, first.v)
    ELSE IF df_empty(filtered.v) THEN empty_result(plan_ctx, entity_ctx, first.v)
    ELSE execute_on_rows(df, column_map, plan, filtered.v, first.v, entity_ctx)

\* not_answerable, had it dropped the stored plan as the empty result does.
not_answerable_clearing(plan, plan_ctx, entity_ctx) ==
    Outcome("return",
            Result("text", "I cannot answer that. Reason: {}",
                   <<py_str(GetOr(plan, "reason_if_not_answerable",
                                  PyStr(<<"A","I"," ","d","e","t","e","r","m","i","n","e","d"," ","i","t"," ","i","s"," ","n","o","t"," ","a","n","s","w","e","r","a","b","l","e",".">>)))>>),
            <<>>, None, entity_ctx, "not_answerable", None, <<>>)

\* Lines 293-297: the plan says it cannot be answered.
not_answerable(plan, plan_ctx, entity_ctx) ==
    Outcome("return",
            Result("text", "I cannot answer that. Reason: {}",
                   <<py_str(GetOr(plan, "reason_if_not_answerable",
                                  PyStr(<<"A","I"," ","d","e","t","e","r","m","i","n","e","d"," ","i","t"," ","i","s"," ","n","o","t"," ","a","n","s","w","e","r","a","b","l","e",".">>)))>>),
            <<>>, plan_ctx, entity_ctx, "not_answerable", None, <<>>)

execute_query_plan(df, column_map, plan, plan_ctx, entity_ctx) ==
    IF df = None
        THEN Outcome("return", Result("text", "DataFrame or column map not loaded.", <<>>),
                     <<>>, plan_ctx, entity_ctx, "not_loaded", None, <<>>)
    ELSE IF ~IsDict(plan)
        THEN Outcome("raise", None, AttributeError, plan_ctx, entity_ctx, "plan_raise", None, <<>>)
    ELSE IF ~Truthy(Get(plan, "is_answerable")) THEN not_answerable(plan, plan_ctx, entity_ctx)
    ELSE execute_answerable(df, column_map, plan, plan_ctx, entity_ctx)

-----------------------------------------------------------------------------
(* generate_query_plan_with_chat *)

\* What chat_session.send_message gives back: ApiError (the call raised), or a text,
\* held as its opening fence ("json" for the json fence, "bare" for a fence without
\* the tag, "none"), whether a fence closes it, and its body: a JSON document
\* (json TRUE, with the value json.loads gives) or something else.
ApiError == [kind |-> "error"]
Text(open, close, body) == [kind |-> "text", open |-> open, close |-> close, body |-> body]
Json(value) == [json |-> TRUE, value |-> value]
NotJson == [json |-> FALSE]

not_valid_json_plan ==
    PyDict([is_answerable |-> PyBool(FALSE),
            reason_if_not_answerable |-> PyStr(<<"A","I"," ","r","e","s","p","o","n","s","e"," ","w","a","s"," ","n","o","t"," ","v","a","l","i","d"," ","J","S","O","N",".">>)])
api_error_plan ==
    PyDict([is_answerable |-> PyBool(FALSE),
            reason_if_not_answerable |-> PyStr(<<"G","e","m","i","n","i"," ","A","P","I"," ","e","r","r","o","r","."," ","P","l","e","a","s","e"," ","c","h","e","c","k"," ","s","e","r","v","e","r"," ","l","o","g","s",".">>)])

JSONDecodeError == <<"J","S","O","N","D","e","c","o","d","e","E","r","r","o","r">>
Exception == <<"E","x","c","e","p","t","i","o","n">>

\* The try block of lines 259-267: the json fence and the closing fence are cut
\* off, and what is left is parsed.
send_and_parse(response) ==
    IF response.kind = "error" THEN Raise(Exception)
    ELSE LET open_left == IF response.open = "json" THEN "none" ELSE response.open IN
         IF open_left = "none" /\ response.body.json THEN Go(response.body.value)
         ELSE Raise(JSONDecodeError)

\* generate_query_plan_with_chat, had a failed call handed back no plan.
generate_query_plan_or_none(response) ==
    LET parsed == send_and_parse(response) IN
    IF parsed.kind = "go" THEN parsed.v ELSE None

\* Lines 259-273: the parsed plan, or the plan an except branch makes.
generate_query_plan_with_chat(response) ==
    LET parsed == send_and_parse(response) IN
    IF parsed.kind = "go" THEN parsed.v
    ELSE IF parsed.exc = JSONDecodeError THEN not_valid_json_plan
    ELSE api_error_plan

-----------------------------------------------------------------------------
(* The spreadsheet the model runs on *)

COL_FORM == <<"F","o","r","m"," ","N","a","m","e">>
COL_SCRIPT == <<"S","c","r","i","p","t","N","a","m","e">>
COL_ENV == <<"E","n","v">>

Row(idx, form_name, script_name, env) ==
    [idx |-> idx,
     cells |-> (COL_FORM :> form_name) @@ (COL_SCRIPT :> script_name) @@ (COL_ENV :> env)]

\* The number of data rows of the sheet.
MaxRows == 5

SheetRows ==
    << Row(0, PyStr(<<"I","n","t","a","k","e">>), PyStr(<<"S","1">>), PyStr(<<"L","I","V","E">>)),
       Row(1, PyStr(<<"P","h","D"," ","N","o","t","e">>), PyStr(<<"S","1">>), PyStr(<<"U","A","T">>)),
       Row(2, PyStr(<<"P","h","D"," ","N","o","t","e">>), PyStr(<<"S","2">>), NaN),
       Row(3, PyStr(<<"L","a","b">>), NaN, PyStr(<<"U","A","T">>)),
       Row(4, PyStr(<<"B","i","l","l","i","n","g">>), PyInt(7), PyStr(<<"L","I","V","E">>)),
       Row(5, PyStr(<<"I","n","t","a","k","e">>), PyStr(<<"S","3">>), PyStr(<<"U","a","t"," ","L","a","b">>)),
       Row(6, PyStr(<<"B","i","l","l","i","n","g">>), PyStr(<<"7">>), NaN) >>

SheetColumns == << COL_FORM, COL_SCRIPT, COL_ENV >>

Sheet(n) ==
    [columns |-> SheetColumns,
     rows |-> SubSeq(SheetRows, 1, IF n < Len(SheetRows) THEN n ELSE Len(SheetRows))]

\* pd.read_excel at startup: the sheet, a sheet with a header row only, or None when
\* the file is missing or unreadable.
LoadedTables == { Sheet(MaxRows), Sheet(0), None }

-----------------------------------------------------------------------------
(* The plans the plan generator hands back in the model *)

Filter(column, match_type, value) ==
    PyDict([column_conceptual_name |-> PyStr(column), match_type |-> PyStr(match_type),
            value |-> value])

F_intake == Filter(form_name_conceptual, EXACT, PyStr(<<"I","n","t","a","k","e">>))
F_phd_note == Filter(form_name_conceptual, CONTAINS, PyStr(<<"P","h","D"," ","N","o","t","e">>))
F_uat == Filter(namespace_conceptual, <<"E","Q","U","A","L","S">>, PyStr(<<" ","u","a","t">>))
F_not_s1 == Filter(script_name_conceptual, NOT_EXACT, PyStr(<<"S","1">>))
F_billing == Filter(form_name_conceptual, EXACT, PyStr(<<"b","i","l","l","i","n","g">>))
F_zzz == Filter(form_name_conceptual, EXACT, PyStr(<<"Z","z","z">>))
F_blank == Filter(namespace_conceptual, NOT_EXACT, PyStr(<<>>))
F_seven == Filter(script_name_conceptual, EXACT, PyInt(7))
\* no match_type: the default "contains" applies
F_lab == PyDict([column_conceptual_name |-> PyStr(form_name_conceptual),
                 value |-> PyStr(<<"l","a","b"," ","f","o","r","m">>)])
F_unmapped == Filter(field_name_conceptual, CONTAINS, PyStr(<<"x">>))
F_bad_match == Filter(form_name_conceptual, <<"r","e","g","e","x">>, PyStr(<<"I","n","t","a","k","e">>))
F_no_value == Filter(form_name_conceptual, CONTAINS, None)
F_bad_regex == Filter(form_name_conceptual, CONTAINS, PyStr(<<"(">>))
F_unmapped_bad_match == Filter(field_name_conceptual, <<"r","e","g","e","x">>, PyStr(<<"x">>))
F_unmapped_no_value == Filter(field_name_conceptual, EXACT, None)
F_int_match == PyDict([column_conceptual_name |-> PyStr(form_name_conceptual),
                       match_type |-> PyInt(5), value |-> PyStr(<<"I","n","t","a","k","e">>)])

FilterLists ==
    { <<>>, <<F_intake>>, <<F_phd_note>>, <<F_phd_note, F_uat>>,
      <<F_billing>>, <<F_lab>>, <<F_blank>>,
      <<F_zzz>>, <<F_blank, F_zzz>>,
      <<F_unmapped>>, <<F_phd_note, F_unmapped>>, <<F_bad_match>>,
      <<F_phd_note, F_no_value>>, <<F_uat, F_bad_regex>>,
      <<F_unmapped_bad_match>>, <<F_unmapped_no_value>>,
      <<F_int_match>> }

Plan(operation, filters) ==
    PyDict([is_answerable |-> PyBool(TRUE), operation |-> PyStr(operation),
            filters |-> PyList(filters)])

\* plan with the further key k set to v
With(plan, k, v) == PyDict((k :> v) @@ plan.v)

FilterAndListPlans ==
    { Plan(FILTER_AND_LIST, fl) : fl \in FilterLists }
    \cup { With(Plan(FILTER_AND_LIST, <<F_phd_note>>), "display_columns_conceptual", d) :
             d \in { None } }

Count(filters, target, distinct) ==
    With(With(Plan(COUNT_ITEMS, filters), "count_target_conceptual", PyStr(target)),
         "count_distinct", PyBool(distinct))

CountPlans ==
    { Plan(COUNT_ITEMS, <<>>),
      Count(<<>>, script_name_conceptual, TRUE), Count(<<>>, script_name_conceptual, FALSE),
      Count(<<F_phd_note>>, script_name_conceptual, TRUE),
      Count(<<F_intake>>, script_name_conceptual, TRUE),
      Count(<<F_blank>>, script_name_conceptual, TRUE),
      Count(<<>>, field_name_conceptual, TRUE) }

ListUnique(filters, target) ==
    With(Plan(LIST_UNIQUE_VALUES, filters), "list_unique_target_conceptual", PyStr(target))

ListUniquePlans ==
    { ListUnique(<<>>, script_name_conceptual), ListUnique(<<F_uat>>, script_name_conceptual),
      ListUnique(<<F_blank>>, script_name_conceptual),
      ListUnique(<<F_zzz>>, script_name_conceptual),
      ListUnique(<<>>, service_name_conceptual) }

OtherOperationPlans == { Plan(<<"e","x","p","o","r","t">>, <<>>), Plan(<<"e","x","p","o","r","t">>, <<F_intake>>) }

NotAnswerablePlans ==
    { PyDict([is_answerable |-> PyBool(FALSE),
              reason_if_not_answerable |-> PyStr(<<"N","o"," ","s","u","c","h"," ","d","a","t","a",".">>)]),
      PyDict([is_answerable |-> PyBool(FALSE)]),
      PyDict([reason_if_not_answerable |-> PyStr(<<"N","o"," ","s","u","c","h"," ","d","a","t","a",".">>),
              operation |-> PyStr(FILTER_AND_LIST),
              filters |-> PyList(<<F_intake>>)]) }

\* JSON that json.loads accepts and that is no plan of the documented shape.
NonConformingPlans ==
    { PyList(<<>>), PyInt(1),
      PyDict([is_answerable |-> PyBool(TRUE), operation |-> PyStr(FILTER_AND_LIST),
              filters |-> PyStr(<<"a","l","l">>)]) }

Plans ==
    FilterAndListPlans \cup CountPlans \cup ListUniquePlans \cup OtherOperationPlans
        \cup NotAnswerablePlans \cup NonConformingPlans

\* What the collaborator sends back in a turn.
Responses ==
    { Text("json", TRUE, Json(p)) : p \in Plans }
    \cup { ApiError,
           Text("none", FALSE, NotJson),
           Text("none", FALSE, Json(Plan(FILTER_AND_LIST, <<F_intake>>))),
           Text("bare", TRUE, Json(Plan(FILTER_AND_LIST, <<F_intake>>))) }

\* What the user types in a turn.
UserQueries ==
    { <<>>, <<"h","i"," ","t","h","e","r","e">>, <<"T","h","a","n","k","s","!">>, <<"h","o","w"," ","a","r","e"," ","y","o","u">>, <<"w","h","i","c","h"," ","s","c","r","i","p","t","s">>,
      <<" "," ","R","e","p","e","a","t"," ","T","h","a","t"," ">> }

simple_show_previous_cmds == { <<"w","h","a","t"," ","w","a","s"," ","t","h","a","t"," ","a","g","a","i","n","?">>, <<"s","h","o","w"," ","t","h","a","t"," ","a","g","a","i","n">>, <<"r","e","p","e","a","t"," ","t","h","a","t">> }

-----------------------------------------------------------------------------
(* handle_send_message: one request is one action *)

\* The record kept of a request: its input, the path it took, the call it made to
\* the plan generator, the plan it executed and how execute_query_plan ended, the
\* globals before it, the reply, and whether the request before it was one whose
\* call to the plan generator ended in an except branch.
\* A request that never calls the plan generator has no response of it.
NoResponse == [kind |-> "none"]

\* Lines 268-273: the call to the plan generator ended in an except branch.
generation_failed(response) ==
    response # NoResponse /\ send_and_parse(response).kind = "raise"

Turn(path, user_query, generator_calls, response, hint, plan, outcome, reply, status) ==
    [path |-> path, user_query |-> user_query,
     generator_calls |-> generator_calls, response |-> response,
     hint |-> hint, plan |-> plan,
     branch |-> outcome.branch, raised |-> outcome.exc,
     from_filters |-> outcome.from_filters, filtered |-> outcome.filtered,
     pre_plan |-> LAST_SUCCESSFUL_PLAN_CONTEXT, pre_entity |-> LAST_PRIMARY_ENTITY_CONTEXT,
     pre_stored |-> stored_result,
     reply |-> reply, status |-> status,
     after_failure |-> (turn.path # "start" /\ generation_failed(turn.response))]

\* A request that never calls execute_query_plan.
NoExecution == [branch |-> "none", exc |-> <<>>, from_filters |-> None, filtered |-> <<>>]

Reply(reply_type, reply) == [reply_type |-> reply_type, reply |-> reply]

\* response_data, had the except branch left the reply at its first value.
response_data_unset(outcome) ==
    IF outcome.kind = "raise"
    THEN Reply("text", Fmt("An error occurred processing your request.", <<>>))
    ELSE Reply(outcome.result.type, outcome.result.content)

\* Lines 566-573: the reply made from the result, or from the exception caught.
response_data(outcome) ==
    IF outcome.kind = "raise" THEN Reply("text", Fmt("Server error: {}", <<outcome.exc>>))
    ELSE Reply(outcome.result.type, outcome.result.content)

Init ==
    /\ EHR_DF \in LoadedTables
    /\ COLUMN_MAP = build_column_map(EHR_DF)
    /\ LAST_SUCCESSFUL_PLAN_CONTEXT = None
    /\ LAST_PRIMARY_ENTITY_CONTEXT = None
    /\ stored_result = None
    /\ turn = [path |-> "start"]

\* Line 534 (the chat session is taken to be up: it is no state of the executor).
initialized == EHR_DF # None /\ COLUMN_MAP # <<>>

\* The globals and the history after a call of execute_query_plan.
Executed(outcome, reply) ==
    /\ LAST_SUCCESSFUL_PLAN_CONTEXT' = outcome.plan_ctx
    /\ LAST_PRIMARY_ENTITY_CONTEXT' = outcome.entity_ctx
    /\ stored_result' = IF outcome.branch = "dispatched" THEN reply
                        ELSE IF outcome.branch = "empty" THEN None
                        ELSE stored_result

\* Lines 534-536
NotInitialized(user_query) ==
    /\ ~initialized
    /\ turn' = Turn("not_initialized", user_query, 0, NoResponse, None, None, NoExecution,
                    Reply("text", Fmt("Chatbot not fully initialized. Please wait or check server logs.", <<>>)),
                    500)
    /\ UNCHANGED <<EHR_DF, COLUMN_MAP, LAST_SUCCESSFUL_PLAN_CONTEXT,
                   LAST_PRIMARY_ENTITY_CONTEXT, stored_result>>

\* Lines 538-541
NoMessage(user_query) ==
    /\ initialized
    /\ user_query = <<>>
    /\ turn' = Turn("no_message", user_query, 0, NoResponse, None, None, NoExecution,
                    Reply("text", Fmt("No message provided", <<>>)), 400)
    /\ UNCHANGED <<EHR_DF, COLUMN_MAP, LAST_SUCCESSFUL_PLAN_CONTEXT,
                   LAST_PRIMARY_ENTITY_CONTEXT, stored_result>>

\* SmallTalk, had a greeting started the conversation afresh.
SmallTalkForgetting(user_query) ==
    /\ initialized
    /\ user_query # <<>>
    /\ handle_small_talk(user_query) # None
    /\ turn' = Turn("small_talk", user_query, 0, NoResponse, None, None, NoExecution,
                    handle_small_talk(user_query), 200)
    /\ LAST_SUCCESSFUL_PLAN_CONTEXT' = None
    /\ LAST_PRIMARY_ENTITY_CONTEXT' = None
    /\ UNCHANGED <<EHR_DF, COLUMN_MAP, stored_result>>

\* Lines 545-548
SmallTalk(user_query) ==
    /\ initialized
    /\ user_query # <<>>
    /\ handle_small_talk(user_query) # None
    /\ turn' = Turn("small_talk", user_query, 0, NoResponse, None, None, NoExecution,
                    handle_small_talk(user_query), 200)
    /\ UNCHANGED <<EHR_DF, COLUMN_MAP, LAST_SUCCESSFUL_PLAN_CONTEXT,
                   LAST_PRIMARY_ENTITY_CONTEXT, stored_result>>

\* is_replay, had the utterance been compared as typed.
is_replay_verbatim(user_query) ==
    /\ user_query \in simple_show_previous_cmds
    /\ Truthy(LAST_SUCCESSFUL_PLAN_CONTEXT)

\* Line 555
is_replay(user_query) ==
    /\ strip(lower(user_query)) \in simple_show_previous_cmds
    /\ Truthy(LAST_SUCCESSFUL_PLAN_CONTEXT)

\* Lines 555-557 and 566-575
Replay(user_query) ==
    /\ initialized
    /\ user_query # <<>>
    /\ handle_small_talk(user_query) = None
    /\ is_replay(user_query)
    /\ LET plan == LAST_SUCCESSFUL_PLAN_CONTEXT IN
       \E outcome \in {execute_query_plan(EHR_DF, COLUMN_MAP, plan,
                           LAST_SUCCESSFUL_PLAN_CONTEXT, LAST_PRIMARY_ENTITY_CONTEXT)} :
          /\ turn' = Turn("replay", user_query, 0, NoResponse, None, plan, outcome,
                          response_data(outcome), 200)
          /\ Executed(outcome, response_data(outcome))
    /\ UNCHANGED <<EHR_DF, COLUMN_MAP>>

\* Generate, had the filters narrowed the table itself and not a copy of it.
GenerateFilteringInPlace(user_query) ==
    /\ initialized
    /\ user_query # <<>>
    /\ handle_small_talk(user_query) = None
    /\ ~is_replay(user_query)
    /\ \E response \in Responses :
       LET plan == generate_query_plan_with_chat(response) IN
       \E outcome \in {execute_query_plan(EHR_DF, COLUMN_MAP, plan,
                           LAST_SUCCESSFUL_PLAN_CONTEXT, LAST_PRIMARY_ENTITY_CONTEXT)} :
          /\ turn' = Turn("generate", user_query, 1, response, LAST_PRIMARY_ENTITY_CONTEXT,
                          plan, outcome, response_data(outcome), 200)
          /\ Executed(outcome, response_data(outcome))
          /\ EHR_DF' = IF outcome.branch = "dispatched"
                       THEN [EHR_DF EXCEPT !.rows = SelectSeq(EHR_DF.rows,
                                LAMBDA r : \E i \in DOMAIN outcome.filtered : outcome.filtered[i] = r.idx)]
                       ELSE EHR_DF
    /\ UNCHANGED COLUMN_MAP

\* Lines 558-575
Generate(user_query) ==
    /\ initialized
    /\ user_query # <<>>
    /\ handle_small_talk(user_query) = None
    /\ ~is_replay(user_query)
    /\ \E response \in Responses :
       LET plan == generate_query_plan_with_chat(response) IN
       \E outcome \in {execute_query_plan(EHR_DF, COLUMN_MAP, plan,
                           LAST_SUCCESSFUL_PLAN_CONTEXT, LAST_PRIMARY_ENTITY_CONTEXT)} :
          /\ turn' = Turn("generate", user_query, 1, response, LAST_PRIMARY_ENTITY_CONTEXT,
                          plan, outcome, response_data(outcome), 200)
          /\ Executed(outcome, response_data(outcome))
    /\ UNCHANGED <<EHR_DF, COLUMN_MAP>>

Next ==
    \/ \E user_query \in UserQueries : NotInitialized(user_query)
    \/ \E user_query \in UserQueries : NoMessage(user_query)
    \/ \E user_query \in UserQueries : SmallTalk(user_query)
    \/ \E user_query \in UserQueries : Replay(user_query)
    \/ \E user_query \in UserQueries : Generate(user_query)

Spec == Init /\ [][Next]_vars

-----------------------------------------------------------------------------
(* Properties of a request, read off the record of the last request and the  *)
(* globals after it.                                                         *)

\* The last request called execute_query_plan.
executed == turn.path \in {"replay", "generate"}

\* The candidate entity of the executed plan, read from the plan itself: the
\* conceptual name and the value as written of its first filter, when both are
\* there; None otherwise.
plan_candidate ==
    LET fs == GetOr(turn.plan, "filters", PyList(<<>>)) IN
    IF IsList(fs) /\ fs.v # <<>> /\ IsDict(fs.v[1])
       /\ Truthy(Get(fs.v[1], "value")) /\ Truthy(Get(fs.v[1], "column_conceptual_name"))
    THEN Entity(fs.v[1].v.column_conceptual_name, fs.v[1].v.value)
    ELSE None

\* The distinct non-missing script values of the rows the last request was left with.
result_scripts ==
    LET col == COLUMN_MAP[script_name_conceptual] IN
    { EHR_DF.rows[i].cells[col] :
        i \in { j \in DOMAIN EHR_DF.rows :
                  \E k \in DOMAIN turn.filtered : turn.filtered[k] = EHR_DF.rows[j].idx } }
      \ { NaN }

\* Rule 1 applies to the last request.
single_script ==
    /\ Get(turn.plan, "operation") = PyStr(FILTER_AND_LIST)
    /\ Cardinality(result_scripts) = 1

\* C1 : a plan whose is_answerable is false is answered by a text reply that holds
\* the plan's reason, no filter is applied, and both globals are what they were
\* before the call.
C1_NotAnswerableKeepsContext ==
    (executed /\ IsDict(turn.plan) /\ ~Truthy(Get(turn.plan, "is_answerable")))
    => /\ turn.branch = "not_answerable"
       /\ turn.reply.reply_type = "text"
       /\ turn.reply.reply.template = "I cannot answer that. Reason: {}"
       /\ "reason_if_not_answerable" \in DOMAIN turn.plan.v
            => turn.reply.reply.args = <<py_str(turn.plan.v.reason_if_not_answerable)>>
       /\ turn.filtered = <<>>
       /\ turn.from_filters = None
       /\ LAST_SUCCESSFUL_PLAN_CONTEXT = turn.pre_plan
       /\ LAST_PRIMARY_ENTITY_CONTEXT = turn.pre_entity

\* C1 happens: the collaborator's plan carries filters and a reason and no
\* is_answerable, and both globals held something before the call.
C1_Witness ==
    /\ turn.path = "generate"
    /\ ~turn.after_failure /\ ~generation_failed(turn.response)
    /\ turn.branch = "not_answerable"
    /\ "reason_if_not_answerable" \in DOMAIN turn.plan.v
    /\ "filters" \in DOMAIN turn.plan.v
    /\ turn.pre_plan # None /\ turn.pre_entity # None
    /\ LAST_SUCCESSFUL_PLAN_CONTEXT = turn.pre_plan

\* The filters that fail in the loop, one for each check of it.
failing_filters ==
    { F_unmapped, F_bad_match, F_no_value, F_bad_regex, F_unmapped_bad_match,
      F_unmapped_no_value }

filter_error_templates ==
    { "Filter Error: Conceptual column '{}' not mapped.",
      "Unsupported match_type: '{}'.",
      "Filter Error: No value for filtering '{}'.",
      "Error during filtering on '{}': {}" }

\* C2 : when a filter of the plan fails (column not mapped, match_type not
\* supported, no value, error in the comparison), at whatever position, the reply
\* is a text error and both globals are what they were before the call.
C2_FilterErrorKeepsContext ==
    (/\ executed /\ IsDict(turn.plan) /\ Truthy(Get(turn.plan, "is_answerable"))
     /\ IsList(Get(turn.plan, "filters"))
     /\ \E i \in DOMAIN turn.plan.v.filters.v : turn.plan.v.filters.v[i] \in failing_filters)
    => /\ turn.branch = "filter_error"
       /\ turn.reply.reply_type = "text"
       /\ turn.reply.reply.template \in filter_error_templates
       /\ turn.filtered = <<>>
       /\ LAST_SUCCESSFUL_PLAN_CONTEXT = turn.pre_plan
       /\ LAST_PRIMARY_ENTITY_CONTEXT = turn.pre_entity

\* C2 happens: the second filter fails after the first was applied and had given
\* a candidate entity, other than the one held.
C2_Witness ==
    /\ executed
    /\ turn.branch = "filter_error"
    /\ Len(turn.plan.v.filters.v) = 2
    /\ turn.plan.v.filters.v[1] \notin failing_filters
    /\ plan_candidate # None
    /\ turn.pre_plan # None /\ turn.pre_entity # None
    /\ turn.pre_entity # plan_candidate
    /\ LAST_PRIMARY_ENTITY_CONTEXT = turn.pre_entity

\* C3 : when the filters of an answerable plan leave no row, the reply is the text
\* "No data found matching your specified filter criteria.", the stored plan is
\* None, and the entity is the first filter's conceptual name and value as written
\* when it has both, None otherwise.
C3_EmptyResult ==
    (executed /\ turn.branch = "empty")
    => /\ Truthy(Get(turn.plan, "is_answerable"))
       /\ turn.filtered = <<>>
       /\ turn.reply = Reply("text",
              Fmt("No data found matching your specified filter criteria.", <<>>))
       /\ LAST_SUCCESSFUL_PLAN_CONTEXT = None
       /\ LAST_PRIMARY_ENTITY_CONTEXT = plan_candidate

\* C3 happens: a plan was stored, the filters leave nothing, and the value as
\* written is not the value as the filter loop compares it.
C3_Witness ==
    /\ executed
    /\ turn.branch = "empty"
    /\ turn.pre_plan # None
    /\ plan_candidate # None
    /\ clean_filter_value(plan_candidate.value) # plan_candidate.value
    /\ turn.pre_entity # plan_candidate
    /\ LAST_PRIMARY_ENTITY_CONTEXT = plan_candidate

\* C4 : the entity goes from something to None only in a request whose plan was
\* answerable, whose filters left no row, and whose first filter gave no candidate;
\* small talk, a plan not answerable, a filter error, rows found, an error in the
\* dispatch, a replay and an exception all leave an entity in place.
C4_OnlyEmptyResultClearsEntity ==
    (turn.path # "start" /\ turn.pre_entity # None /\ LAST_PRIMARY_ENTITY_CONTEXT = None)
    => /\ turn.path = "generate"
       /\ IsDict(turn.plan) /\ Truthy(Get(turn.plan, "is_answerable"))
       /\ turn.branch = "empty"
       /\ turn.filtered = <<>>
       /\ turn.raised = <<>>
       /\ plan_candidate = None

\* C4 happens: an entity was held and the request cleared it.
C4_Witness ==
    /\ turn.path = "generate"
    /\ turn.pre_entity # None
    /\ LAST_PRIMARY_ENTITY_CONTEXT = None
    /\ turn.branch = "empty"
    /\ Truthy(Get(turn.plan, "filters"))

\* C5 : when rows are left, the stored plan is the executed plan; and when the plan
\* is a filter_and_list and the rows hold exactly one distinct non-missing script
\* value v, the entity is script_name_conceptual with (the text of) v, whatever
\* candidate the first filter gave.
C5_PlanStoredAndSingleScript ==
    (executed /\ turn.filtered # <<>>)
    => /\ LAST_SUCCESSFUL_PLAN_CONTEXT = turn.plan
       /\ single_script
            => LAST_PRIMARY_ENTITY_CONTEXT =
                 Entity(PyStr(script_name_conceptual),
                        PyStr(py_str(CHOOSE v \in result_scripts : TRUE)))

\* C5 happens: the first filter gave a candidate about the form, and the one
\* script of the rows replaced it.
C5_Witness ==
    /\ turn.path = "generate"
    /\ turn.filtered # <<>>
    /\ single_script
    /\ plan_candidate # None
    /\ plan_candidate.type = PyStr(form_name_conceptual)
    /\ turn.pre_plan # turn.plan
    /\ LAST_PRIMARY_ENTITY_CONTEXT.type = PyStr(script_name_conceptual)

\* C6 : when rows are left and rule 1 does not apply, the entity is the candidate of
\* the first filter if there is one; else, for a count_items with a target, the
\* target with "items previously counted"; else, for a list_unique_values with no
\* filters and a target, the target with "all unique values listed"; else what it
\* was.
C6_EntityPrecedence ==
    (executed /\ turn.filtered # <<>> /\ ~single_script)
    => LAST_PRIMARY_ENTITY_CONTEXT =
         IF plan_candidate # None THEN plan_candidate
         ELSE IF /\ Get(turn.plan, "operation") = PyStr(COUNT_ITEMS)
                 /\ Truthy(Get(turn.plan, "count_target_conceptual"))
           THEN Entity(turn.plan.v.count_target_conceptual,
                       PyStr(<<"i","t","e","m","s"," ","p","r","e","v","i","o","u","s","l","y"," ","c","o","u","n","t","e","d">>))
         ELSE IF /\ Get(turn.plan, "operation") = PyStr(LIST_UNIQUE_VALUES)
                 /\ ~Truthy(GetOr(turn.plan, "filters", PyList(<<>>)))
                 /\ Truthy(Get(turn.plan, "list_unique_target_conceptual"))
           THEN Entity(turn.plan.v.list_unique_target_conceptual,
                       PyStr(<<"a","l","l"," ","u","n","i","q","u","e"," ","v","a","l","u","e","s"," ","l","i","s","t","e","d">>))
         ELSE turn.pre_entity

\* C6 happens: a listing with a filter that gives no candidate keeps the entity
\* held before it.
C6_Witness ==
    /\ turn.path = "generate"
    /\ turn.filtered # <<>>
    /\ Get(turn.plan, "operation") = PyStr(LIST_UNIQUE_VALUES)
    /\ Truthy(Get(turn.plan, "filters"))
    /\ Truthy(Get(turn.plan, "list_unique_target_conceptual"))
    /\ plan_candidate = None
    /\ turn.pre_entity # None
    /\ LAST_PRIMARY_ENTITY_CONTEXT = turn.pre_entity

\* C7 : an utterance that, trimmed and lower-cased, is a replay phrase makes no
\* call to the plan generator when a plan is stored, executes the stored plan and
\* gets the reply the plan got when it was stored; with no plan stored it goes
\* through plan generation.
C7_ReplayReproducesResult ==
    (executed /\ strip(lower(turn.user_query)) \in simple_show_previous_cmds)
    => IF turn.pre_plan # None
       THEN /\ turn.path = "replay"
            /\ turn.generator_calls = 0
            /\ turn.response = NoResponse
            /\ turn.plan = turn.pre_plan
            /\ turn.reply = turn.pre_stored
            /\ LAST_SUCCESSFUL_PLAN_CONTEXT = turn.pre_plan
       ELSE /\ turn.path = "generate"
            /\ turn.generator_calls = 1
            /\ turn.response \in Responses

\* C7 happens: the phrase, typed with capitals and blanks around it, brings back
\* the table of the stored plan.
C7_Witness ==
    /\ turn.path = "replay"
    /\ turn.user_query \notin simple_show_previous_cmds
    /\ turn.reply.reply_type = "html"
    /\ turn.reply = turn.pre_stored
    /\ turn.branch = "dispatched"

\* C8 : a request calls the plan generator at most once; when the call fails (the
\* API raises, or what comes back does not parse) the request is answered from a
\* plan with is_answerable false, both globals stay what they were, and the
\* request after it that is a question calls the plan generator again.
C8_GeneratorCalledOnceNoRetry ==
    turn.path # "start"
    => /\ turn.generator_calls \in {0, 1}
       /\ turn.generator_calls = 1 <=> turn.path = "generate"
       /\ (/\ turn.path = "generate"
           /\ \/ turn.response.kind = "error"
              \/ ~turn.response.body.json
              \/ turn.response.open = "bare")
          => /\ IsDict(turn.plan)
             /\ Get(turn.plan, "is_answerable") = PyBool(FALSE)
             /\ turn.branch = "not_answerable"
             /\ turn.raised = <<>>
             /\ turn.reply.reply_type = "text"
             /\ turn.reply.reply.template = "I cannot answer that. Reason: {}"
             /\ LAST_SUCCESSFUL_PLAN_CONTEXT = turn.pre_plan
             /\ LAST_PRIMARY_ENTITY_CONTEXT = turn.pre_entity
       /\ (/\ turn.after_failure
           /\ turn.path \in {"small_talk", "replay", "generate"}
           /\ handle_small_talk(turn.user_query) = None
           /\ strip(lower(turn.user_query)) \notin simple_show_previous_cmds)
          => /\ turn.path = "generate"
             /\ turn.generator_calls = 1
             /\ turn.response \in Responses

\* C8 happens: a failed call with both globals holding something, in the request
\* after another failed call.
C8_Witness ==
    /\ turn.path = "generate"
    /\ turn.after_failure
    /\ turn.response.kind = "error"
    /\ turn.generator_calls = 1
    /\ turn.pre_plan # None /\ turn.pre_entity # None
    /\ LAST_SUCCESSFUL_PLAN_CONTEXT = turn.pre_plan

\* What comes back is not a plan: no JSON, JSON that is no object, or a plan with
\* filters that are no list or a match_type that is no string.
non_conforming_response ==
    /\ turn.path = "generate"
    /\ turn.response.kind = "text"
    /\ \/ generation_failed(turn.response)
       \/ ~IsDict(turn.plan)
       \/ /\ "filters" \in DOMAIN turn.plan.v
          /\ \/ ~IsList(turn.plan.v.filters)
             \/ \E i \in DOMAIN turn.plan.v.filters.v :
                   LET f == turn.plan.v.filters.v[i] IN
                   IsDict(f) /\ "match_type" \in DOMAIN f.v /\ ~IsStr(f.v.match_type)

\* C9 : every response that is not a plan is answered by the text reply of a plan
\* not answerable, and no exception leaves plan generation or plan execution.
C9_NonConformingIsNotAnswerable ==
    non_conforming_response
    => /\ turn.raised = <<>>
       /\ turn.reply.reply_type = "text"
       /\ turn.reply.reply.template = "I cannot answer that. Reason: {}"

\* C9's failing case: the response is the JSON array [], plan.get raises
\* AttributeError, and the reply is the server error of the request handler.
C9_Witness ==
    /\ non_conforming_response
    /\ turn.plan = PyList(<<>>)
    /\ turn.branch = "plan_raise"
    /\ turn.raised = AttributeError
    /\ turn.reply = Reply("text", Fmt("Server error: {}", <<AttributeError>>))

-----------------------------------------------------------------------------
(* The filter loop on two filters, in both orders                             *)

\* Values a filter may carry that are not null: texts (one with a capital and a
\* suffix that clean_filter_value cuts, one empty, one that is no regular
\* expression) and a number.
FilterValues ==
    { PyStr(<<"I","n","t","a","k","e">>), PyStr(<<"P","h","D"," ","N","o","t","e">>), PyStr(<<"s">>), PyStr(<<"u","a","t">>),
      PyStr(<<"a">>), PyStr(<<>>), PyStr(<<"(">>), PyInt(7) }

\* The filters with a mapped column, a supported match type and a value.
ValidFilters ==
    { Filter(c, m, v) :
        c \in { form_name_conceptual, script_name_conceptual, namespace_conceptual },
        m \in { <<EXACT, NOT_EXACT, CONTAINS>>[i] : i \in 1..3 },
        v \in FilterValues }

\* What the loop of lines 314-348 leaves of the table: the rows, or the kind of
\* the step that ended it.
rows_left(df, column_map, filters) ==
    LET done == apply_filters(df, column_map, df, filters) IN
    IF done.kind = "go" THEN [kind |-> "go", rows |-> row_ids(done.v)]
    ELSE [kind |-> done.kind, rows |-> <<>>]

InitFilters ==
    /\ EHR_DF \in LoadedTables \ { None }
    /\ COLUMN_MAP = build_column_map(EHR_DF)
    /\ LAST_SUCCESSFUL_PLAN_CONTEXT = None
    /\ LAST_PRIMARY_ENTITY_CONTEXT = None
    /\ stored_result = None
    /\ turn \in [path : {"filters"}, a : ValidFilters, b : ValidFilters]

\* The loop runs on [a], [b], [a, b] and [b, a], each from the whole table.
ApplyInBothOrders ==
    /\ turn.path = "filters"
    /\ turn' = [path |-> "filtered", a |-> turn.a, b |-> turn.b,
                a_only |-> rows_left(EHR_DF, COLUMN_MAP, <<turn.a>>),
                b_only |-> rows_left(EHR_DF, COLUMN_MAP, <<turn.b>>),
                ab |-> rows_left(EHR_DF, COLUMN_MAP, <<turn.a, turn.b>>),
                ba |-> rows_left(EHR_DF, COLUMN_MAP, <<turn.b, turn.a>>)]
    /\ UNCHANGED <<EHR_DF, COLUMN_MAP, LAST_SUCCESSFUL_PLAN_CONTEXT,
                   LAST_PRIMARY_ENTITY_CONTEXT, stored_result>>

NextFilters == ApplyInBothOrders

SpecFilters == InitFilters /\ [][NextFilters]_vars

\* C10 : two valid filters A and B on different columns leave the same rows of the
\* same table in the order [A, B] and in the order [B, A] (and a filter that ends
\* the loop ends it in both orders).
C10_FilterOrderIndependent ==
    (/\ turn.path = "filtered"
     /\ turn.a.v.column_conceptual_name # turn.b.v.column_conceptual_name)
    => /\ turn.ab.kind = turn.ba.kind
       /\ { turn.ab.rows[i] : i \in DOMAIN turn.ab.rows }
            = { turn.ba.rows[i] : i \in DOMAIN turn.ba.rows }

\* C10 happens: each filter alone leaves other rows than the other, both drop rows,
\* and rows are left after both.
C10_Witness ==
    /\ turn.path = "filtered"
    /\ turn.a.v.column_conceptual_name # turn.b.v.column_conceptual_name
    /\ turn.ab.kind = "go" /\ turn.ba.kind = "go"
    /\ turn.ab.rows # <<>>
    /\ turn.a_only.rows # turn.b_only.rows
    /\ turn.ab.rows # turn.a_only.rows
    /\ turn.ab.rows # turn.b_only.rows
    /\ turn.ab.rows = turn.ba.rows

-----------------------------------------------------------------------------
(* What one filter keeps                                                     *)

\* The rows of the table whose cell in the column of filter f is there and holds,
\* whatever the case, the value of f as clean_filter_value makes it.
rows_holding(f) ==
    LET col == COLUMN_MAP[f.v.column_conceptual_name.v]
        wanted == lower(py_str(clean_filter_value(f.v.value)))
    IN { EHR_DF.rows[i].idx :
           i \in { j \in DOMAIN EHR_DF.rows :
                     /\ EHR_DF.rows[j].cells[col] # NaN
                     /\ contains(lower(py_str(EHR_DF.rows[j].cells[col])), wanted) } }

\* C11 : a contains filter keeps no row whose cell in the filtered column is
\* missing, whatever the value; it keeps a row whose cell is there if and only if
\* the text of the cell holds the normalized value, whatever the case.
C11_ContainsSkipsMissingCells ==
    (turn.path = "filtered" /\ turn.a.v.match_type = PyStr(CONTAINS))
    => { turn.a_only.rows[i] : i \in DOMAIN turn.a_only.rows } = rows_holding(turn.a)

\* C11's failing case: a contains filter on the namespace with the value "a" keeps
\* a row whose namespace is missing.
C11_Witness ==
    /\ turn.path = "filtered"
    /\ turn.a = Filter(namespace_conceptual, CONTAINS, PyStr(<<"a">>))
    /\ turn.a_only.kind = "go"
    /\ \E i \in DOMAIN EHR_DF.rows :
          /\ EHR_DF.rows[i].cells[COL_ENV] = NaN
          /\ \E k \in DOMAIN turn.a_only.rows : turn.a_only.rows[k] = EHR_DF.rows[i].idx

-----------------------------------------------------------------------------
(* The operations, read off the last request                                 *)

\* The rows of the table the last request was left with.
result_rows ==
    { i \in DOMAIN EHR_DF.rows :
        \E k \in DOMAIN turn.filtered : turn.filtered[k] = EHR_DF.rows[i].idx }

\* The cells of those rows in the script column that are not missing, row by row.
result_script_cells == { i \in result_rows : EHR_DF.rows[i].cells[COL_SCRIPT] # NaN }

\* C12 : on rows left, count_items reports the number of rows when the plan has no
\* count_target_conceptual; with count_distinct the number of distinct values of
\* the target column that are not missing, under a label in the plural ("Scripts")
\* unless the count is 1; without count_distinct the number of cells of the target
\* column that are not missing, which is not the number of rows.
C12_CountItems ==
    (/\ executed /\ turn.filtered # <<>> /\ turn.raised = <<>>
     /\ Get(turn.plan, "operation") = PyStr(COUNT_ITEMS))
    => /\ turn.reply.reply_type = "text"
       /\ ~Truthy(Get(turn.plan, "count_target_conceptual"))
            => turn.reply.reply =
                 Fmt("Found {} records matching your criteria.",
                     <<int_str(Cardinality(result_rows))>>)
       /\ (/\ Get(turn.plan, "count_target_conceptual") = PyStr(script_name_conceptual)
           /\ Truthy(Get(turn.plan, "count_distinct")))
            => turn.reply.reply =
                 Fmt("Found {} distinct {} ({}) matching your criteria.",
                     << int_str(Cardinality(result_scripts)),
                        IF Cardinality(result_scripts) = 1 THEN <<"S","c","r","i","p","t">> ELSE <<"S","c","r","i","p","t","s">>,
                        COL_SCRIPT >>)
       /\ (/\ Get(turn.plan, "count_target_conceptual") = PyStr(script_name_conceptual)
           /\ ~Truthy(Get(turn.plan, "count_distinct")))
            => turn.reply.reply =
                 Fmt("Found {} items/records where '{}' ({}) is present, matching criteria.",
                     << int_str(Cardinality(result_script_cells)), <<"S","c","r","i","p","t">>, COL_SCRIPT >>)

\* C12 happens: a count without count_distinct on rows of which one has no script.
C12_Witness ==
    /\ turn.path = "generate"
    /\ turn.filtered # <<>>
    /\ Get(turn.plan, "operation") = PyStr(COUNT_ITEMS)
    /\ Get(turn.plan, "count_target_conceptual") = PyStr(script_name_conceptual)
    /\ ~Truthy(Get(turn.plan, "count_distinct"))
    /\ Cardinality(result_script_cells) < Cardinality(result_rows)
    /\ turn.reply.reply.args[1] = int_str(Cardinality(result_script_cells))

\* The reply of list_unique_values on the script column of the rows `source` of the
\* table: the texts of the distinct values that are not missing, in sorted order,
\* one to a line.
script_listing(source) ==
    LET values == { EHR_DF.rows[i].cells[COL_SCRIPT] : i \in source } \ { NaN }
        n == Cardinality(values)
        in_order == CHOOSE f \in [1..n -> values] :
                       /\ \A i, j \in 1..n : i # j => f[i] # f[j]
                       /\ \A i \in 1..n : i < n => str_le(py_str(f[i]), py_str(f[i + 1]))
    IN Fmt("Unique values for '{}':\n{}",
           << COL_SCRIPT, join(<<"\n">>, [i \in 1..n |-> py_str(in_order[i])]) >>)

\* The last request executed a list_unique_values on the script column and no
\* filter of it failed.
listed_scripts ==
    /\ executed /\ IsDict(turn.plan) /\ Truthy(Get(turn.plan, "is_answerable"))
    /\ Get(turn.plan, "operation") = PyStr(LIST_UNIQUE_VALUES)
    /\ Get(turn.plan, "list_unique_target_conceptual") = PyStr(script_name_conceptual)
    /\ turn.branch \in {"empty", "dispatched"}

\* C13 : list_unique_values takes its values from the rows the filters left when
\* the plan has filters, and from the whole table when it has none, and the reply
\* lists the values of the target column that are not missing, sorted and without
\* repetition; it is reached only with rows left: filters that leave no row end the
\* request with "No data found matching your specified filter criteria.".
C13_ListUniqueSource ==
    listed_scripts
    => /\ turn.filtered # <<>>
            => /\ turn.branch = "dispatched"
               /\ turn.reply.reply_type = "text"
               /\ turn.reply.reply =
                    script_listing(IF Truthy(GetOr(turn.plan, "filters", PyList(<<>>)))
                                   THEN result_rows ELSE DOMAIN EHR_DF.rows)
       /\ turn.filtered = <<>>
            => /\ turn.branch = "empty"
               /\ turn.reply = Reply("text",
                      Fmt("No data found matching your specified filter criteria.", <<>>))

\* C13 as it was stated: filters that leave no row make the listing fall back to
\* the whole table.
C13_FallsBackWhenFiltersLeaveNothing ==
    (listed_scripts /\ EHR_DF.rows # <<>>)
    => turn.reply.reply =
         script_listing(IF Truthy(GetOr(turn.plan, "filters", PyList(<<>>)))
                           /\ result_rows # {}
                        THEN result_rows ELSE DOMAIN EHR_DF.rows)

\* C13 happens: the filters leave some rows of the table, and the listing holds the
\* scripts of those rows only.
C13_Witness ==
    /\ listed_scripts
    /\ turn.path = "generate"
    /\ Truthy(Get(turn.plan, "filters"))
    /\ turn.filtered # <<>>
    /\ Cardinality(result_rows) < Len(EHR_DF.rows)
    /\ turn.reply.reply = script_listing(result_rows)
    /\ turn.reply.reply # script_listing(DOMAIN EHR_DF.rows)

\* C14 : an answerable plan with rows left and an operation that is none of
\* filter_and_list, count_items and list_unique_values gets the text reply
\* "Unsupported operation", and the globals are what the bookkeeping before the
\* dispatch made them: the plan stored, the entity by the precedence rules (here
\* the candidate of the first filter, else what it was).
C14_UnsupportedOperation ==
    (/\ executed /\ IsDict(turn.plan) /\ Truthy(Get(turn.plan, "is_answerable"))
     /\ turn.filtered # <<>>
     /\ Get(turn.plan, "operation") \notin
          { PyStr(FILTER_AND_LIST), PyStr(COUNT_ITEMS), PyStr(LIST_UNIQUE_VALUES) })
    => /\ turn.branch = "dispatched"
       /\ turn.raised = <<>>
       /\ turn.reply = Reply("text", Fmt("Unsupported operation: '{}'.",
                                         <<py_str(Get(turn.plan, "operation"))>>))
       /\ LAST_SUCCESSFUL_PLAN_CONTEXT = turn.plan
       /\ LAST_PRIMARY_ENTITY_CONTEXT =
            IF plan_candidate # None THEN plan_candidate ELSE turn.pre_entity

\* C14 happens: another plan was stored and another entity held, and the request
\* with the unsupported operation replaced both.
C14_Witness ==
    /\ turn.path = "generate"
    /\ turn.filtered # <<>>
    /\ turn.reply.reply.template = "Unsupported operation: '{}'."
    /\ turn.pre_plan # None /\ turn.pre_plan # turn.plan
    /\ turn.pre_entity # None /\ turn.pre_entity # plan_candidate
    /\ LAST_SUCCESSFUL_PLAN_CONTEXT = turn.plan
    /\ LAST_PRIMARY_ENTITY_CONTEXT = plan_candidate

\* C15 : a request that reaches the try block ends with one reply; an exception
\* raised in the replay, in the plan generation or in the plan execution is caught
\* by the handler and answered by the text "Server error: ...", with status 200,
\* the table and the column map stay loaded; and the request after it is handled
\* like any other: routed by its utterance and the stored plan, starting from the
\* globals the failed request left.
C15_ExceptionBecomesServerError ==
    /\ [](executed
          => /\ turn.reply.reply_type \in {"text", "html"}
             /\ turn.status = 200
             /\ turn.raised # <<>>
                  => /\ turn.reply = Reply("text", Fmt("Server error: {}", <<turn.raised>>))
                     /\ initialized)
    /\ [][(executed /\ turn.raised # <<>>)
          => /\ turn'.path =
                  IF turn'.user_query = <<>> THEN "no_message"
                  ELSE IF handle_small_talk(turn'.user_query) # None THEN "small_talk"
                  ELSE IF /\ strip(lower(turn'.user_query)) \in simple_show_previous_cmds
                          /\ LAST_SUCCESSFUL_PLAN_CONTEXT # None
                       THEN "replay"
                  ELSE "generate"
             /\ turn'.pre_plan = LAST_SUCCESSFUL_PLAN_CONTEXT
             /\ turn'.pre_entity = LAST_PRIMARY_ENTITY_CONTEXT
             /\ turn'.reply.reply_type \in {"text", "html"}]_vars

\* C15 happens: plan.get raises on a response that is no object while a plan is
\* stored, and the reply is the server error.
C15_Witness ==
    /\ turn.path = "generate"
    /\ turn.raised = AttributeError
    /\ turn.pre_plan # None
    /\ turn.reply.reply.template = "Server error: {}"
    /\ LAST_SUCCESSFUL_PLAN_CONTEXT = turn.pre_plan

\* C16 : a request whose utterance the small-talk classifier matches ends at once
\* with the classifier's reply: no call to the plan generator, no plan executed or
\* replayed, both globals as before.
C16_SmallTalkExits ==
    (/\ turn.path \in {"small_talk", "replay", "generate"}
     /\ handle_small_talk(turn.user_query) # None)
    => /\ turn.path = "small_talk"
       /\ turn.reply = handle_small_talk(turn.user_query)
       /\ turn.status = 200
       /\ turn.generator_calls = 0
       /\ turn.response = NoResponse
       /\ turn.plan = None
       /\ turn.branch = "none"
       /\ LAST_SUCCESSFUL_PLAN_CONTEXT = turn.pre_plan
       /\ LAST_PRIMARY_ENTITY_CONTEXT = turn.pre_entity
       /\ stored_result = turn.pre_stored

\* C16 happens: small talk while a plan is stored and an entity held.
C16_Witness ==
    /\ turn.path = "small_talk"
    /\ turn.reply.reply_type = "text"
    /\ turn.pre_plan # None /\ turn.pre_entity # None
    /\ LAST_SUCCESSFUL_PLAN_CONTEXT = turn.pre_plan
    /\ LAST_PRIMARY_ENTITY_CONTEXT = turn.pre_entity

-----------------------------------------------------------------------------
(* handle_small_talk on utterances made of words                            *)

\* The most words of an utterance.
MaxWords == 2

\* Words and phrases an utterance is made of: domain keywords, greetings, thanks,
\* how-are-you phrases, in small and capital letters and with blanks around, and
\* words that are none of these (one of them holding "hi").
Words ==
    { <<"s","c","r","i","p","t">>, <<"P","h","D">>, <<"p","r","o","g","r","e","s","s"," ","n","o","t","e">>, <<"H","e","l","l","o">>, <<"h","e","y">>, <<" ","G","o","o","d"," ","M","o","r","n","i","n","g"," ">>,
      <<"t","h","a","n","k","s">>, <<"T","H","X">>, <<"h","o","w"," ","a","r","e"," ","y","o","u">>, <<"w","h","i","c","h">>, <<"o","k">>, <<"w","h","a","t">> }

RECURSIVE Utterances(_)
Utterances(n) ==
    IF n = 1 THEN Words
    ELSE Utterances(n - 1)
           \cup { u \o <<" ">> \o w : u \in Utterances(n - 1), w \in Words }

InitSmallTalk ==
    /\ EHR_DF = Sheet(MaxRows)
    /\ COLUMN_MAP = build_column_map(EHR_DF)
    /\ LAST_SUCCESSFUL_PLAN_CONTEXT = None
    /\ LAST_PRIMARY_ENTITY_CONTEXT = None
    /\ stored_result = None
    /\ turn \in [path : {"utterance"}, user_query : Utterances(MaxWords)]

\* small_talk_response = handle_small_talk(user_query)
Classify ==
    /\ turn.path = "utterance"
    /\ turn' = [path |-> "classified", user_query |-> turn.user_query,
                small_talk_response |-> handle_small_talk(turn.user_query)]
    /\ UNCHANGED <<EHR_DF, COLUMN_MAP, LAST_SUCCESSFUL_PLAN_CONTEXT,
                   LAST_PRIMARY_ENTITY_CONTEXT, stored_result>>

NextSmallTalk == Classify

SpecSmallTalk == InitSmallTalk /\ [][NextSmallTalk]_vars

\* A phrase of the list occurs in the utterance, lower-cased and trimmed.
utterance_holds(phrases) ==
    \E i \in DOMAIN phrases : contains(lower(strip(turn.user_query)), phrases[i])

\* C17 : the classifier returns None for every utterance that holds a domain
\* keyword, whatever else it holds; otherwise the reply of the first of greetings,
\* thanks, how-are-you of which a phrase occurs in the utterance, and None when
\* none does.
C17_SmallTalkClassifier ==
    turn.path = "classified"
    => turn.small_talk_response =
         IF utterance_holds(ehr_keywords) THEN None
         ELSE IF utterance_holds(greetings)
           THEN Reply("text", Fmt("Hello! How can I assist you with EHR scripts today?", <<>>))
         ELSE IF utterance_holds(thanks)
           THEN Reply("text", Fmt("You're welcome! Happy to help.", <<>>))
         ELSE IF utterance_holds(how_are_you)
           THEN Reply("text", Fmt("I'm doing well, thanks for asking! What would you like to know about the scripts?", <<>>))
         ELSE None

\* C17 happens: thanks come before a greeting in the utterance, and the reply is
\* the greeting's.
C17_Witness ==
    /\ turn.path = "classified"
    /\ turn.user_query = <<"T","H","X"," ","H","e","l","l","o">>
    /\ utterance_holds(greetings) /\ utterance_holds(thanks)
    /\ turn.small_talk_response =
         Reply("text", Fmt("Hello! How can I assist you with EHR scripts today?", <<>>))

\* The first filter of the executed plan, None when the plan has no list of filters.
first_filter ==
    IF IsDict(turn.plan) /\ IsList(Get(turn.plan, "filters")) /\ Get(turn.plan, "filters").v # <<>>
        THEN Get(turn.plan, "filters").v[1]
    ELSE None

\* C18 : within one filter the column is resolved before the match_type is looked
\* at and before the value: a filter with an unmapped conceptual column and an
\* unsupported match_type, and one with an unmapped column, a supported match_type
\* and a null value, are both answered with the column-not-mapped error.
C18_ColumnResolvedFirst ==
    (/\ executed /\ IsDict(turn.plan) /\ Truthy(Get(turn.plan, "is_answerable"))
     /\ first_filter \in {F_unmapped_bad_match, F_unmapped_no_value})
    => /\ turn.branch = "filter_error"
       /\ turn.reply = Reply("text", Fmt("Filter Error: Conceptual column '{}' not mapped.",
                                         <<field_name_conceptual>>))

\* C18 happens: the plan's only filter has an unmapped column and an unsupported
\* match_type, and the reply names the match_type.
C18_Witness ==
    /\ executed /\ IsDict(turn.plan) /\ Truthy(Get(turn.plan, "is_answerable"))
    /\ first_filter = F_unmapped_bad_match
    /\ column_map_get(COLUMN_MAP, PyStr(field_name_conceptual)) = None
    /\ turn.branch = "filter_error"
    /\ turn.reply = Reply("text", Fmt("Unsupported match_type: '{}'.", <<lower(<<"r","e","g","e","x">>)>>))

\* The other half of the order: with a supported match_type, an unmapped column is
\* reported before a null value.
C18_UnmappedBeforeNoValue ==
    (/\ executed /\ IsDict(turn.plan) /\ Truthy(Get(turn.plan, "is_answerable"))
     /\ first_filter = F_unmapped_no_value)
    => /\ turn.branch = "filter_error"
       /\ turn.reply = Reply("text", Fmt("Filter Error: Conceptual column '{}' not mapped.",
                                         <<field_name_conceptual>>))

-----------------------------------------------------------------------------
(* The column map built at startup, on tables of other columns              *)

\* The most columns of a table, and the most times the map is built on it.
MaxColumns == 3
MaxBuilds == 2

\* Column headers: names that aliases of one key name (the first alias, a later
\* one, with blanks and capitals of their own), and one that no alias names.
ColumnPool ==
    { <<"F","o","r","m">>, <<"f","o","r","m"," ","n","a","m","e">>, <<"E","H","R"," ","F","O","R","M">>, <<"S","c","r","i","p","t","s">>, <<"S","c","r","i","p","t"," ","N","a","m","e">>, <<"E","n","v">>, <<"O","w","n","e","r">> }

\* DataFrame.columns of a sheet: up to MaxColumns different headers, in any order.
ColumnLists ==
    { c \in UNION { [1..n -> ColumnPool] : n \in 0..MaxColumns } :
        \A i, j \in DOMAIN c : c[i] = c[j] => i = j }

InitAliases ==
    /\ EHR_DF \in { [columns |-> c, rows |-> <<>>] : c \in ColumnLists } \cup { None }
    /\ COLUMN_MAP = <<>>
    /\ LAST_SUCCESSFUL_PLAN_CONTEXT = None
    /\ LAST_PRIMARY_ENTITY_CONTEXT = None
    /\ stored_result = None
    /\ turn = [path |-> "loaded", builds |-> 0, previous |-> <<>>]

\* COLUMN_MAP = {} and the loops that fill it, run on the table as loaded.
BuildColumnMap ==
    /\ turn.path \in {"loaded", "mapped"}
    /\ turn.builds < MaxBuilds
    /\ COLUMN_MAP' = build_column_map(EHR_DF)
    /\ turn' = [path |-> "mapped", builds |-> turn.builds + 1, previous |-> COLUMN_MAP]
    /\ UNCHANGED <<EHR_DF, LAST_SUCCESSFUL_PLAN_CONTEXT, LAST_PRIMARY_ENTITY_CONTEXT,
                   stored_result>>

NextAliases == BuildColumnMap

SpecAliases == InitAliases /\ [][NextAliases]_vars

\* The pairs <<alias position, column position>> of the k-th key whose alias and
\* column are equal once blanks are removed and letters lower-cased.
alias_hits(k) ==
    { p \in (DOMAIN COLUMN_ALIASES[k][2]) \X (DOMAIN EHR_DF.columns) :
        normalize_name(COLUMN_ALIASES[k][2][p[1]]) = normalize_name(EHR_DF.columns[p[2]]) }

\* The pair with the earliest alias and, for that alias, the earliest column.
earliest_hit(k) ==
    CHOOSE p \in alias_hits(k) :
        \A q \in alias_hits(k) : p[1] < q[1] \/ (p[1] = q[1] /\ p[2] <= q[2])

\* C19 : each conceptual key is mapped to at most one column, the one found by
\* trying the key's aliases in declared order and for each alias the columns in
\* table order (an earlier alias wins over an earlier column); a key none of whose
\* aliases names a column is absent from the map; building the map a second time
\* on the same table gives the same map.
C19_AliasResolution ==
    (turn.path = "mapped" /\ EHR_DF # None)
    => /\ DOMAIN COLUMN_MAP = { COLUMN_ALIASES[k][1] : k \in {j \in DOMAIN COLUMN_ALIASES : alias_hits(j) # {}} }
       /\ \A k \in DOMAIN COLUMN_ALIASES :
            alias_hits(k) # {}
            => COLUMN_MAP[COLUMN_ALIASES[k][1]] = EHR_DF.columns[earliest_hit(k)[2]]
       /\ turn.builds > 1 => COLUMN_MAP = turn.previous

\* C19 happens: the first column is named by a later alias of the form key and the
\* second column by its first alias; the key is mapped to the second column, the
\* namespace key to nothing, and the map was built twice.
C19_Witness ==
    /\ turn.path = "mapped" /\ turn.builds = 2
    /\ EHR_DF # None
    /\ EHR_DF.columns = << <<"F","o","r","m">>, <<"f","o","r","m"," ","n","a","m","e">> >>
    /\ COLUMN_MAP[form_name_conceptual] = <<"f","o","r","m"," ","n","a","m","e">>
    /\ namespace_conceptual \notin DOMAIN COLUMN_MAP
    /\ COLUMN_MAP = turn.previous

-----------------------------------------------------------------------------
(* clean_filter_value on values made of pieces                              *)

\* The most pieces of a string value.
MaxPieces == 3

\* Pieces of a filter value: words, the three suffixes (in small and capital
\* letters, with a blank after), a blank, and a suffix word without its blank.
Pieces ==
    { <<"p","h","d">>, <<"x">>, <<"S","p","e","c","i","a","l"," ","U","s","e">>, <<" ","f","o","r","m">>, <<" ","n","o","t","e">>, <<" ","S","C","R","I","P","T"," ">>, <<" ">>, <<"F","o","r","m">> }

RECURSIVE PieceStrings(_)
PieceStrings(n) ==
    IF n = 0 THEN { <<>> }
    ELSE PieceStrings(n - 1) \cup { s \o p : s \in PieceStrings(n - 1), p \in Pieces }

\* The values a filter can carry: strings, and values that are not strings.
FilterValueInputs ==
    { PyStr(s) : s \in PieceStrings(MaxPieces) }
      \cup { None, NaN, PyInt(7), PyBool(TRUE), PyList(<<PyStr(<<"x"," ","f","o","r","m">>)>>) }

InitClean ==
    /\ EHR_DF = Sheet(MaxRows)
    /\ COLUMN_MAP = build_column_map(EHR_DF)
    /\ LAST_SUCCESSFUL_PLAN_CONTEXT = None
    /\ LAST_PRIMARY_ENTITY_CONTEXT = None
    /\ stored_result = None
    /\ turn \in [path : {"value"}, value : FilterValueInputs]

\* value_to_filter = clean_filter_value(value_to_filter_raw)
CleanValue ==
    /\ turn.path = "value"
    /\ turn' = [path |-> "cleaned", value |-> turn.value,
                value_to_filter |-> clean_filter_value(turn.value)]
    /\ UNCHANGED <<EHR_DF, COLUMN_MAP, LAST_SUCCESSFUL_PLAN_CONTEXT,
                   LAST_PRIMARY_ENTITY_CONTEXT, stored_result>>

NextClean == CleanValue

SpecClean == InitClean /\ [][NextClean]_vars

\* The suffixes the trimmed lower-cased value ends with.
ending_suffixes(text) ==
    { suf \in { <<" ","f","o","r","m">>, <<" ","n","o","t","e">>, <<" ","s","c","r","i","p","t">> } :
        endswith(text, suf) }

\* C20 : a value that is not a string is returned unchanged; a string is
\* lower-cased and trimmed, then loses the one suffix among " form", " note",
\* " script" it ends with, and no second one ("phd form" gives "phd", "special use
\* note" gives "special use", "x form note" gives "x form"); a string ending with
\* none of them is returned lower-cased and trimmed.
C20_CleanFilterValue ==
    turn.path = "cleaned"
    => /\ ~IsStr(turn.value) => turn.value_to_filter = turn.value
       /\ IsStr(turn.value)
          => LET text == strip(lower(turn.value.v)) IN
             /\ IsStr(turn.value_to_filter)
             /\ ending_suffixes(text) = {} => turn.value_to_filter.v = text
             /\ \A suf \in ending_suffixes(text) : turn.value_to_filter.v \o suf = text
       /\ turn.value = PyStr(<<"p","h","d"," ","f","o","r","m">>) => turn.value_to_filter = PyStr(<<"p","h","d">>)
       /\ turn.value = PyStr(<<"S","p","e","c","i","a","l"," ","U","s","e"," ","n","o","t","e">>) => turn.value_to_filter = PyStr(<<"s","p","e","c","i","a","l"," ","u","s","e">>)
       /\ turn.value = PyStr(<<"x"," ","f","o","r","m"," ","n","o","t","e">>) => turn.value_to_filter = PyStr(<<"x"," ","f","o","r","m">>)

\* C20 happens: a value ending with two suffixes loses the last one only.
C20_Witness ==
    /\ turn.path = "cleaned"
    /\ turn.value = PyStr(<<"x"," ","f","o","r","m"," ","n","o","t","e">>)
    /\ turn.value_to_filter = PyStr(<<"x"," ","f","o","r","m">>)
    /\ ending_suffixes(turn.value_to_filter.v) # {}

\* C21 : no request of any kind changes the table or the column map: after any
\* sequence of requests, failing ones included, the table is the one loaded at
\* startup and the map the one built from it, and the rows a request is left
\* with after filtering are rows of that table.
C21_TableAndMapReadOnly ==
    /\ [](/\ EHR_DF \in LoadedTables
          /\ COLUMN_MAP = build_column_map(EHR_DF)
          /\ executed => \A i \in DOMAIN turn.filtered :
                            \E j \in DOMAIN EHR_DF.rows : EHR_DF.rows[j].idx = turn.filtered[i])
    /\ [][EHR_DF' = EHR_DF /\ COLUMN_MAP' = COLUMN_MAP]_vars

\* C21 happens: a request made while a plan was stored was left with some rows of
\* the table and not all, and the table still has every row.
C21_Witness ==
    /\ executed /\ turn.branch = "dispatched"
    /\ turn.pre_plan # None
    /\ turn.filtered # <<>> /\ Len(turn.filtered) < Len(EHR_DF.rows)
    /\ EHR_DF = Sheet(MaxRows)
    /\ COLUMN_MAP = build_column_map(Sheet(MaxRows))

\* C22 : a replay leaves the globals as they were: the stored plan is found to
\* leave rows again, so it is stored again and never cleared, and the entity held
\* after the replay is the entity held before it.
C22_ReplayKeepsContext ==
    turn.path = "replay"
    => /\ turn.plan = turn.pre_plan
       /\ turn.filtered # <<>>
       /\ turn.branch # "empty"
       /\ LAST_SUCCESSFUL_PLAN_CONTEXT = turn.pre_plan
       /\ LAST_SUCCESSFUL_PLAN_CONTEXT # None
       /\ LAST_PRIMARY_ENTITY_CONTEXT = turn.pre_entity

\* C22 happens: the stored plan gives an entity of its own (the single script of
\* its rows), which is the entity held before and after the replay.
C22_Witness ==
    /\ turn.path = "replay"
    /\ turn.branch = "dispatched"
    /\ single_script
    /\ turn.pre_entity # None
    /\ LAST_PRIMARY_ENTITY_CONTEXT = turn.pre_entity
    /\ LAST_SUCCESSFUL_PLAN_CONTEXT = turn.pre_plan

\* The type of an entity is a key of the column map.
type_is_mapped(entity) == IsStr(entity.type) /\ entity.type.v \in DOMAIN COLUMN_MAP

\* The entity is one that rule 3 makes: the target of a count, or of a listing
\* without filters, with the rule's fixed value.
from_operation_target(entity) ==
    entity.value \in { PyStr(<<"i","t","e","m","s"," ","p","r","e","v","i","o","u","s","l","y"," ","c","o","u","n","t","e","d">>), PyStr(<<"a","l","l"," ","u","n","i","q","u","e"," ","v","a","l","u","e","s"," ","l","i","s","t","e","d">>) }

\* C23 as stated: whenever the entity held is not None its type is a key of the
\* column map, and so is the type of every entity handed to the plan generator as
\* a hint.
C23_EntityTypeIsMappedKey ==
    /\ LAST_PRIMARY_ENTITY_CONTEXT # None => type_is_mapped(LAST_PRIMARY_ENTITY_CONTEXT)
    /\ (turn.path = "generate" /\ turn.hint # None) => type_is_mapped(turn.hint)

\* C23 : whenever the entity held is not None, either its type is a key of the
\* column map, or it is the target of a count or of a listing without filters,
\* which is recorded before the target is looked up in the map; the same holds of
\* every entity handed to the plan generator as a hint; an entity that comes from
\* the plan's filters or from the single script of the rows has a mapped type.
C23_EntityTypeMappedUnlessOperationTarget ==
    /\ LAST_PRIMARY_ENTITY_CONTEXT # None
       => \/ type_is_mapped(LAST_PRIMARY_ENTITY_CONTEXT)
          \/ from_operation_target(LAST_PRIMARY_ENTITY_CONTEXT)
    /\ (turn.path = "generate" /\ turn.hint # None)
       => type_is_mapped(turn.hint) \/ from_operation_target(turn.hint)
    /\ (executed /\ turn.branch \in {"dispatched", "empty"} /\ turn.from_filters # None)
       => type_is_mapped(turn.from_filters)

\* C23 happens: the plan generator is handed an entity whose type has no column,
\* left by a count of a target that is not mapped.
C23_Witness ==
    /\ turn.path = "generate"
    /\ turn.hint # None
    /\ turn.hint.type = PyStr(field_name_conceptual)
    /\ ~type_is_mapped(turn.hint)
    /\ from_operation_target(turn.hint)

-----------------------------------------------------------------------------
(* Requests served on several threads                                       *)
(* The server hands requests to worker threads (line 581); the handler and   *)
(* execute_query_plan read and assign the two globals without a lock. A step *)
(* of a thread is a stretch of the handler with one read or one assignment   *)
(* of a global in it.                                                        *)

\* The worker threads, and the most requests one thread serves.
MaxThreads == 2
MaxServed == 1
Threads == 1..MaxThreads

\* What the plan generator sends back to the threads: plans that leave rows (with
\* an entity from their filter, from their target, or none), a plan that leaves no
\* row, a plan with a failing filter, and a call that fails.
ThreadResponses ==
    { Text("json", TRUE, Json(p)) :
        p \in { Plan(FILTER_AND_LIST, <<F_intake>>), Plan(FILTER_AND_LIST, <<>>),
                Count(<<>>, script_name_conceptual, TRUE),
                Plan(FILTER_AND_LIST, <<F_zzz>>), Plan(FILTER_AND_LIST, <<F_unmapped>>) } }
    \cup { ApiError }

\* The mark of a global that a call of execute_query_plan has not assigned.
Unwritten == [t |-> "unwritten"]

Idle == [pc |-> "idle", path |-> "none"]

InitThreads ==
    /\ EHR_DF = Sheet(MaxRows)
    /\ COLUMN_MAP = build_column_map(EHR_DF)
    /\ LAST_SUCCESSFUL_PLAN_CONTEXT = None
    /\ LAST_PRIMARY_ENTITY_CONTEXT = None
    /\ stored_result = None
    /\ turn = [path |-> "threads", alone |-> FALSE,
               before |-> [plan |-> None, entity |-> None],
               served |-> [t \in Threads |-> 0],
               threads |-> [t \in Threads |-> Idle]]

\* The globals after a request served with no other request in flight.
serve_alone(context, user_query, response) ==
    LET replay == strip(lower(user_query)) \in simple_show_previous_cmds /\ Truthy(context.plan)
        plan == IF replay THEN context.plan ELSE generate_query_plan_with_chat(response)
        outcome == execute_query_plan(EHR_DF, COLUMN_MAP, plan, context.plan, context.entity)
    IN [plan |-> outcome.plan_ctx, entity |-> outcome.entity_ctx]

\* Lines 531-575 with no other request in flight, before the threads are busy.
ServeAlone(user_query, response) ==
    /\ ~turn.alone
    /\ \A t \in Threads : turn.served[t] = 0 /\ turn.threads[t].pc = "idle"
    /\ user_query # <<>> /\ handle_small_talk(user_query) = None
    /\ \E after \in {serve_alone([plan |-> LAST_SUCCESSFUL_PLAN_CONTEXT,
                                  entity |-> LAST_PRIMARY_ENTITY_CONTEXT], user_query, response)} :
          /\ LAST_SUCCESSFUL_PLAN_CONTEXT' = after.plan
          /\ LAST_PRIMARY_ENTITY_CONTEXT' = after.entity
          /\ turn' = [turn EXCEPT !.alone = TRUE, !.before = after]
    /\ UNCHANGED <<EHR_DF, COLUMN_MAP, stored_result>>

\* Lines 538-555: the request is taken, is no small talk, and the condition of
\* line 555 is evaluated, reading LAST_SUCCESSFUL_PLAN_CONTEXT.
Receive(t, user_query) ==
    /\ turn.threads[t].pc = "idle"
    /\ turn.served[t] < MaxServed
    /\ user_query # <<>> /\ handle_small_talk(user_query) = None
    /\ turn' = [turn EXCEPT !.threads[t] =
                  [pc |-> IF is_replay(user_query) THEN "replay" ELSE "generate",
                   path |-> IF is_replay(user_query) THEN "replay" ELSE "generate",
                   user_query |-> user_query,
                   checked |-> LAST_SUCCESSFUL_PLAN_CONTEXT]]
    /\ UNCHANGED <<EHR_DF, COLUMN_MAP, LAST_SUCCESSFUL_PLAN_CONTEXT,
                   LAST_PRIMARY_ENTITY_CONTEXT, stored_result>>

\* The thread after execute_query_plan ran up to its first assignment of a global,
\* or to its end when it assigns none.
Called(t, response, plan, outcome) ==
    [turn EXCEPT !.threads[t] =
        [pc |-> IF outcome.plan_ctx # Unwritten THEN "store_plan" ELSE "idle",
         path |-> turn.threads[t].path,
         user_query |-> turn.threads[t].user_query,
         checked |-> turn.threads[t].checked,
         response |-> response, plan |-> plan,
         plan_ctx |-> outcome.plan_ctx, entity_ctx |-> outcome.entity_ctx,
         branch |-> outcome.branch, reply |-> response_data(outcome)],
     !.served[t] = IF outcome.plan_ctx # Unwritten THEN @ ELSE @ + 1]

\* Line 557: LAST_SUCCESSFUL_PLAN_CONTEXT is read again, as the argument of the
\* call; lines 290-348 of the call.
ReplayCall(t) ==
    /\ turn.threads[t].pc = "replay"
    /\ LET plan == LAST_SUCCESSFUL_PLAN_CONTEXT IN
       turn' = Called(t, NoResponse, plan,
                      execute_query_plan(EHR_DF, COLUMN_MAP, plan, Unwritten, Unwritten))
    /\ UNCHANGED <<EHR_DF, COLUMN_MAP, LAST_SUCCESSFUL_PLAN_CONTEXT,
                   LAST_PRIMARY_ENTITY_CONTEXT, stored_result>>

\* Lines 560-564: LAST_PRIMARY_ENTITY_CONTEXT is read for the hint, the plan
\* generator answers; lines 290-348 of the call.
GenerateCall(t, response) ==
    /\ turn.threads[t].pc = "generate"
    /\ LET plan == generate_query_plan_with_chat(response) IN
       turn' = Called(t, response, plan,
                      execute_query_plan(EHR_DF, COLUMN_MAP, plan, Unwritten, Unwritten))
    /\ UNCHANGED <<EHR_DF, COLUMN_MAP, LAST_SUCCESSFUL_PLAN_CONTEXT,
                   LAST_PRIMARY_ENTITY_CONTEXT, stored_result>>

\* Line 352 or line 362: LAST_SUCCESSFUL_PLAN_CONTEXT is assigned; when the entity
\* is not assigned after it, the call runs to its end.
StorePlan(t) ==
    /\ turn.threads[t].pc = "store_plan"
    /\ LAST_SUCCESSFUL_PLAN_CONTEXT' = turn.threads[t].plan_ctx
    /\ turn' = IF turn.threads[t].entity_ctx # Unwritten
               THEN [turn EXCEPT !.threads[t].pc = "store_entity"]
               ELSE [turn EXCEPT !.threads[t].pc = "idle", !.served[t] = @ + 1]
    /\ UNCHANGED <<EHR_DF, COLUMN_MAP, LAST_PRIMARY_ENTITY_CONTEXT, stored_result>>

\* Line 354, 357 or 402: LAST_PRIMARY_ENTITY_CONTEXT is assigned, and the call
\* runs to its end.
StoreEntity(t) ==
    /\ turn.threads[t].pc = "store_entity"
    /\ LAST_PRIMARY_ENTITY_CONTEXT' = turn.threads[t].entity_ctx
    /\ turn' = [turn EXCEPT !.threads[t].pc = "idle", !.served[t] = @ + 1]
    /\ UNCHANGED <<EHR_DF, COLUMN_MAP, LAST_SUCCESSFUL_PLAN_CONTEXT, stored_result>>

NextThreads ==
    \/ \E user_query \in UserQueries, response \in ThreadResponses :
          ServeAlone(user_query, response)
    \/ \E t \in Threads, user_query \in UserQueries : Receive(t, user_query)
    \/ \E t \in Threads : ReplayCall(t)
    \/ \E t \in Threads, response \in ThreadResponses : GenerateCall(t, response)
    \/ \E t \in Threads : StorePlan(t)
    \/ \E t \in Threads : StoreEntity(t)

SpecThreads == InitThreads /\ [][NextThreads]_vars

\* Thread t is past line 557 of a replay.
replay_called(t) == turn.threads[t].path = "replay" /\ turn.threads[t].pc # "replay"

\* C24 : with requests on several threads, a replay that found a plan stored
\* executes a plan that is not None, the plan it found at the check, even when
\* another request clears the stored plan between the check and the call.
C24_ReplayExecutesCheckedPlan ==
    \A t \in Threads :
        replay_called(t)
        => /\ turn.threads[t].plan # None
           /\ turn.threads[t].plan = turn.threads[t].checked

\* C24 happens: a replay found a plan stored at the check, was handed None at the
\* call, and is answered with the server error of the exception.
C24_Witness ==
    \E t \in Threads :
        /\ replay_called(t)
        /\ turn.threads[t].checked # None
        /\ turn.threads[t].plan = None
        /\ turn.threads[t].branch = "plan_raise"
        /\ turn.threads[t].reply = Reply("text", Fmt("Server error: {}", <<AttributeError>>))

\* The two globals as a pair.
context == [plan |-> LAST_SUCCESSFUL_PLAN_CONTEXT, entity |-> LAST_PRIMARY_ENTITY_CONTEXT]

\* The responses the request of thread t may get from the plan generator: the one
\* it got, or any when it was a replay and asked for none.
responses_of(t) ==
    IF turn.threads[t].response # NoResponse THEN { turn.threads[t].response }
    ELSE ThreadResponses

\* The globals that the request of thread t, then that of thread u, each served
\* with no other in flight, may leave from the globals the threads started with.
one_after_the_other(t, u) ==
    { serve_alone(serve_alone(turn.before, turn.threads[t].user_query, first),
                  turn.threads[u].user_query, second) :
        first \in responses_of(t), second \in responses_of(u) }

\* Two threads have each served one request, and none is in flight.
both_served ==
    /\ turn.path = "threads"
    /\ \A t \in Threads : turn.served[t] = 1 /\ turn.threads[t].pc = "idle"

\* C25 : when two requests execute plans on two threads, the globals at the end
\* are the pair that serving the two one after the other, in one order or the
\* other, leaves; no interleaving leaves the stored plan of one request with the
\* entity of the other.
C25_AsIfOneAfterTheOther ==
    both_served
    => \E t, u \in Threads : t # u /\ context \in one_after_the_other(t, u)

\* C25 happens: both requests have ended, one left rows and the other none, and
\* the stored plan is None while the entity is that of the plan that left rows.
C25_Witness ==
    /\ both_served
    /\ \E t, u \in Threads :
         /\ turn.threads[t].path = "generate" /\ turn.threads[t].branch = "dispatched"
         /\ turn.threads[u].path = "generate" /\ turn.threads[u].branch = "empty"
         /\ LAST_SUCCESSFUL_PLAN_CONTEXT = None
         /\ LAST_PRIMARY_ENTITY_CONTEXT = turn.threads[t].entity_ctx
         /\ LAST_PRIMARY_ENTITY_CONTEXT # turn.threads[u].entity_ctx
    /\ \A t, u \in Threads : context \notin one_after_the_other(t, u)

\* The replies the operations keep for a table without rows.
no_data_templates ==
    { "No data found.", "No data to count matching your criteria.",
      "No data to list unique values for '{}'." }

\* C26 : the operations are reached only with rows left: for every plan and table,
\* filters (or a table) that leave no row end the call at the return after the
\* filter loop, so none of the replies "No data found.", "No data to count
\* matching your criteria." and "No data to list unique values for ..." is ever
\* given, and a listing of unique values with filters lists the values of the rows
\* left, never those of the whole table.
C26_DispatchOnlyWithRows ==
    executed
    => /\ turn.branch = "dispatched" => turn.filtered # <<>>
       /\ (turn.branch \in {"dispatched", "empty"} /\ turn.filtered = <<>>)
          => /\ turn.branch = "empty"
             /\ turn.reply = Reply("text",
                    Fmt("No data found matching your specified filter criteria.", <<>>))
       /\ turn.reply.reply_type = "text" => turn.reply.reply.template \notin no_data_templates
       /\ (listed_scripts /\ turn.branch = "dispatched" /\ Truthy(Get(turn.plan, "filters")))
          => turn.reply.reply = script_listing(result_rows)

\* C26 happens: on a table of a header row only, a listing without filters never
\* reaches list_unique_values and is answered at the return after the filter loop.
C26_Witness ==
    /\ executed
    /\ EHR_DF = Sheet(0)
    /\ listed_scripts
    /\ ~Truthy(Get(turn.plan, "filters"))
    /\ turn.branch = "empty"
    /\ turn.reply = Reply("text",
           Fmt("No data found matching your specified filter criteria.", <<>>))
====
